---- MODULE Spec2Model ----
(***************************************************************************)
(* A model of the request/response framing layer of py_drop_box:           *)
(*   request.py   FileFromHTTPRequest.save_to_file, Request                *)
(*   response.py  Response                                                 *)
(*   app.py       App.build_response, App.wsgi_call                        *)
(*   views.py     MainView.handle_upload_file                              *)
(* Bytes and characters are one-element strings ("a", "-", ...); the two   *)
(* control bytes are written "CR" and "LF".  A byte string or a text is a  *)
(* sequence of them.                                                       *)
(***************************************************************************)
EXTENDS Integers, Sequences, FiniteSets, TLC

VARIABLES
    wsgi_input,   \* the body stream: [data |-> bytes, pos |-> read cursor]
    file,         \* FileFromHTTPRequest fields, or None
    sv_pc,        \* position inside handle_upload_file / save_to_file
    cur_size,     \* save_to_file: bytes still to read
    chunk,        \* save_to_file: the chunk just read
    dest,         \* the destination file on disk: [exists, data]
    reads,        \* sizes passed to fp.read by save_to_file, in order
    writes,       \* lengths of the chunks passed to f.write, in order
    exc,          \* the exception caught / propagated by save_to_file, or None
    sv_rv,        \* return value of save_to_file: "None" until it returns, then
                  \* "True" or "False"
    flashes,      \* Flash._flashes: sequence of [msg, level]
    payload,      \* the part body the client sent (what the upload should store)
    response,     \* the Response object being emitted, or None
    rp_pc,        \* position inside Response.build_status / prepare_rv
    size,         \* prepare_rv: units of the body still to slice
    index,        \* prepare_rv: start of the next slice
    res,          \* prepare_rv: the chunks appended so far
    environ,      \* the gateway environment: a function on the keys present
    request,      \* Request fields headers, method, path_info, content_length
    GET_params,   \* Request.GET_params: key -> value
    POST_params,  \* Request.POST_params: key -> sequence of values
    rq_pc,        \* position inside Request.__init__
    rq_exc,       \* the exception that aborted Request.__init__: [type, at]
    rq_reads,     \* the reads Request.__init__ made on the stream, in order
    client,       \* the query pairs the client encoded into QUERY_STRING
    events,       \* the steps of Response.__call__ taken so far, in order
    start_calls,  \* the calls of start_response: [status, headers]
    body,         \* what Response.__call__ returned: [mode, ...]
    gw_pc,        \* position inside App.wsgi_call
    _route_handlers, \* App._route_handlers: the paths with a registered handler
    static_files, \* the regular files under the statics directory
    handler_rv,   \* what the invoked handler returned: [kind, val]
    handler_calls, \* the paths whose handler was invoked, in order
    err_calls,    \* how often the 404 handler was invoked
    sessions,     \* AppData.sessions: the set of valid session tokens
    current_users, \* AppData.current_users: token -> Client [u_name, cwd]
    users,        \* the USERS table: login -> pass_hash
    dirs,         \* the directories on disk
    fsfiles,      \* the regular files on disk
    vw_pc,        \* position inside the view call being served
    vw_req,       \* the request the view is serving
    vw_rv,        \* what the view returned or raised
    act_log,      \* the per-user actions of the current request, in order
    stale,        \* the Flash list as the current request found it
    n_derived,    \* how many tokens derive_token has produced
    n_req,        \* how many requests were served
    revoked,      \* the tokens a logout removed from sessions
    issued        \* token -> the user name that authenticated for it

saveVars == <<wsgi_input, file, sv_pc, cur_size, chunk, dest, reads, writes, exc, sv_rv,
              flashes, payload>>

respVars == <<response, rp_pc, size, index, res, events, start_calls, body>>

gwVars == <<gw_pc, _route_handlers, static_files, handler_rv, handler_calls, err_calls>>

reqVars == <<environ, request, GET_params, POST_params, rq_pc, rq_exc, rq_reads, client>>

viewVars == <<sessions, current_users, users, dirs, fsfiles, vw_pc, vw_req, vw_rv, act_log,
              stale, n_derived, n_req, revoked, issued>>

vars == <<saveVars, respVars, reqVars, gwVars, viewVars>>

None == "None"

----------------------------------------------------------------------------
(* Bounds *)

\* filler lengths lie within EdgeSlack of a multiple of the read chunk size
EdgeSlack == 12
\* ... up to MaxChunks whole chunks
MaxChunks == 1
\* the payload ends in up to MaxSuffix bytes drawn from SuffixBytes
MaxSuffix == 1

----------------------------------------------------------------------------
(* Byte-string helpers *)

Digits == <<"0", "1", "2", "3", "4", "5", "6", "7", "8", "9">>

Min(a, b) == IF a < b THEN a ELSE b

Range(s) == {s[i] : i \in DOMAIN s}

\* stream.read(n): the bytes returned and the stream afterwards
StreamRead(st, n) ==
    LET hi == Min(st.pos + n, Len(st.data))
    IN  [bytes  |-> SubSeq(st.data, st.pos + 1, hi),
         stream |-> [st EXCEPT !.pos = hi]]

\* bytes.rstrip(chars): drops every trailing byte that is a member of chars
RECURSIVE rstrip(_, _)
rstrip(s, chars) ==
    IF s = <<>> THEN s
    ELSE IF s[Len(s)] \in Range(chars)
         THEN rstrip(SubSeq(s, 1, Len(s) - 1), chars)
         ELSE s

----------------------------------------------------------------------------
(* request.py: FileFromHTTPRequest *)

read_chunk_size == 4 * 1024

\* tail = b'\r\n--' + self.binary_file_bound + b'--\r\n'
tail(bound) == <<"CR", "LF", "-", "-">> \o bound \o <<"-", "-", "CR", "LF">>

\* what the except clause of save_to_file does with an exception raised at
\* `stage` ("open", "read" or "write"): every Exception is caught
SaveOnException_WriteEscapes(stage) == IF stage = "write" THEN "propagates" ELSE "caught"
SaveOnException(stage) == "caught"

\* string.ascii_letters + string.digits + '_-. ()[]{}?!'
AllowedChars ==
    {"a","b","c","d","e","f","g","h","i","j","k","l","m","n","o","p","q","r",
     "s","t","u","v","w","x","y","z",
     "A","B","C","D","E","F","G","H","I","J","K","L","M","N","O","P","Q","R",
     "S","T","U","V","W","X","Y","Z",
     "0","1","2","3","4","5","6","7","8","9",
     "_","-","."," ","(",")","[","]","{","}","?","!"}

is_allowed_identifier(u_name) == \A i \in DOMAIN u_name : u_name[i] \in AllowedChars

Flash(msg, level) == [msg |-> msg, level |-> level]

----------------------------------------------------------------------------
(* Text helpers (Python str / bytes methods used by request.py) *)

SetMin(S) == CHOOSE x \in S : \A y \in S : x <= y
SetMax(S) == CHOOSE x \in S : \A y \in S : x >= y

\* the start positions of sub in s
Occ(s, sub) == {i \in 1..(Len(s) - Len(sub) + 1) : SubSeq(s, i, i + Len(sub) - 1) = sub}

\* sub in s
Contains(s, sub) == Occ(s, sub) # {}

\* s.startswith(prefix)
StartsWith(s, prefix) == Len(s) >= Len(prefix) /\ SubSeq(s, 1, Len(prefix)) = prefix

\* s.split(sep): the pieces between the occurrences of sep, left to right
RECURSIVE split(_, _)
split(s, sep) ==
    IF Occ(s, sep) = {} THEN <<s>>
    ELSE LET i == SetMin(Occ(s, sep))
         IN  <<SubSeq(s, 1, i - 1)>> \o split(SubSeq(s, i + Len(sep), Len(s)), sep)

\* s.split(sep, 1)
split1(s, sep) ==
    IF Occ(s, sep) = {} THEN <<s>>
    ELSE LET i == SetMin(Occ(s, sep))
         IN  <<SubSeq(s, 1, i - 1), SubSeq(s, i + Len(sep), Len(s))>>

Whitespace == {" ", "TAB", "CR", "LF"}

\* s.strip()
strip(s) ==
    LET keep == {i \in DOMAIN s : s[i] \notin Whitespace}
    IN  IF keep = {} THEN <<>> ELSE SubSeq(s, SetMin(keep), SetMax(keep))

\* s.replace('+', ' ')
PlusToSpace(s) == [i \in DOMAIN s |-> IF s[i] = "+" THEN " " ELSE s[i]]

DigitChars == {"0", "1", "2", "3", "4", "5", "6", "7", "8", "9"}

DigitValue(c) == CHOOSE d \in 0..9 : Digits[d + 1] = c

\* int(s) accepts a non-empty run of decimal digits (signs and blanks aside)
IntOk(s) == s # <<>> /\ \A i \in DOMAIN s : s[i] \in DigitChars

RECURSIVE int(_)
int(s) == IF Len(s) = 1 THEN DigitValue(s[1])
          ELSE 10 * int(SubSeq(s, 1, Len(s) - 1)) + DigitValue(s[Len(s)])

\* str(n) for n >= 0 as a character sequence
RECURSIVE DigitsOf(_)
DigitsOf(n) == IF n < 10 THEN <<Digits[n + 1]>>
               ELSE DigitsOf(n \div 10) \o <<Digits[(n % 10) + 1]>>

\* the byte a %XX escape stands for; the escapes of the model's alphabet
HexByte(h) ==
    IF h = <<"2", "6">> THEN "&"
    ELSE IF h = <<"3", "D">> THEN "="
    ELSE IF h = <<"2", "5">> THEN "%"
    ELSE IF h = <<"2", "B">> THEN "+"
    ELSE IF h = <<"2", "0">> THEN " "
    ELSE "?"

HexChars == DigitChars \cup {"A", "B", "C", "D", "E", "F"}

\* urllib.parse.unquote: every %XX with two hex digits becomes its byte,
\* anything else is kept
RECURSIVE unquote(_)
unquote(s) ==
    IF s = <<>> THEN <<>>
    ELSE IF s[1] = "%" /\ Len(s) >= 3 /\ s[2] \in HexChars /\ s[3] \in HexChars
         THEN <<HexByte(SubSeq(s, 2, 3))>> \o unquote(SubSeq(s, 4, Len(s)))
         ELSE <<s[1]>> \o unquote(SubSeq(s, 2, Len(s)))

\* urllib.parse.quote of the characters the model uses
QuoteChar(c) ==
    IF c = "&" THEN <<"%", "2", "6">>
    ELSE IF c = "=" THEN <<"%", "3", "D">>
    ELSE IF c = "%" THEN <<"%", "2", "5">>
    ELSE IF c = "+" THEN <<"%", "2", "B">>
    ELSE <<c>>

RECURSIVE quote(_)
quote(s) == IF s = <<>> THEN <<>> ELSE QuoteChar(s[1]) \o quote(SubSeq(s, 2, Len(s)))

\* a readline that hands the line over without its LF
StreamReadline_DropsLF(st) ==
    LET lfs == {i \in (st.pos + 1)..Len(st.data) : st.data[i] = "LF"}
        hi  == IF lfs = {} THEN Len(st.data) ELSE SetMin(lfs)
    IN  [bytes  |-> SubSeq(st.data, st.pos + 1, IF lfs = {} THEN hi ELSE hi - 1),
         stream |-> [st EXCEPT !.pos = hi]]
\* stream.readline(): up to and including the next LF, or to the end
StreamReadline(st) ==
    LET lfs == {i \in (st.pos + 1)..Len(st.data) : st.data[i] = "LF"}
        hi  == IF lfs = {} THEN Len(st.data) ELSE SetMin(lfs)
    IN  [bytes  |-> SubSeq(st.data, st.pos + 1, hi),
         stream |-> [st EXCEPT !.pos = hi]]

----------------------------------------------------------------------------
(* request.py: Request *)

RequiredKeys == {"wsgi.input", "REQUEST_METHOD", "PATH_INFO", "CONTENT_LENGTH"}

\* the keys of the model's environments that start with 'HTTP_'
HttpKeys == {"HTTP_HOST", "HTTP_COOKIE"}

Has(env, k) == k \in DOMAIN env

\* environ.get(k, default)
Get(env, k, default) == IF Has(env, k) THEN env[k] ELSE default

MULTIPART == <<"m", "u", "l", "t", "i", "p", "a", "r", "t", "/", "f", "o", "r", "m", "-", "d", "a", "t", "a">>

\* _extract_file_name: re.search(r'filename="(.+)"'): the first filename=" and,
\* greedily, everything up to the last double quote after it, at least one
\* character; otherwise 'unknown_file'
_extract_file_name(param) ==
    LET key    == <<"f", "i", "l", "e", "n", "a", "m", "e", "=">> \o <<"DQ">>
        starts == Occ(param, key)
        quotes == {i \in DOMAIN param : param[i] = "DQ"}
    IN  IF starts = {} THEN <<"u", "n", "k", "n", "o", "w", "n", "_", "f", "i", "l", "e">>
        ELSE LET from == SetMin(starts) + Len(key)
                 ends == {i \in quotes : i > from}
             IN  IF ends = {} THEN <<"u", "n", "k", "n", "o", "w", "n", "_", "f", "i", "l", "e">>
                 ELSE SubSeq(param, from, SetMax(ends) - 1)

\* a header-line loop that ends at a line containing the boundary token
RECURSIVE ScanHeaders_StopsAtBoundary(_, _, _, _, _)
ScanHeaders_StopsAtBoundary(st, n, hd, lines, file_bound) ==
    LET r       == StreamReadline(st)
        line    == r.bytes
        left    == n - Len(line)
        decoded == strip(line)
        log     == Append(lines, Len(line))
    IN  IF decoded = <<>> \/ Contains(decoded, file_bound)
        THEN [stream |-> r.stream, length |-> left, header |-> hd, lines |-> log,
              raised |-> None]
        ELSE LET kv == split(decoded, <<":", " ">>)
             IN  IF Len(kv) # 2
                 THEN [stream |-> r.stream, length |-> left, header |-> hd,
                       lines |-> log, raised |-> "ValueError"]
                 ELSE ScanHeaders_StopsAtBoundary(r.stream, left,
                                  [k \in DOMAIN hd \cup {kv[1]} |->
                                      IF k = kv[1] THEN kv[2] ELSE hd[k]],
                                  log, file_bound)
\* the header-line loop of parse_files from stream st with counter n and the
\* header dict hd: [stream, length, header, lines, raised]
RECURSIVE ScanHeaders(_, _, _, _, _)
ScanHeaders(st, n, hd, lines, file_bound) ==
    LET r       == StreamReadline(st)
        line    == r.bytes
        left    == n - Len(line)
        decoded == strip(line)
        log     == Append(lines, Len(line))
    IN  IF decoded = <<>>
        THEN [stream |-> r.stream, length |-> left, header |-> hd, lines |-> log,
              raised |-> None]
        ELSE IF ~Contains(decoded, file_bound)
        THEN LET kv == split(decoded, <<":", " ">>)
             IN  IF Len(kv) # 2
                 THEN [stream |-> r.stream, length |-> left, header |-> hd,
                       lines |-> log, raised |-> "ValueError"]
                 ELSE ScanHeaders(r.stream, left,
                                  [k \in DOMAIN hd \cup {kv[1]} |->
                                      IF k = kv[1] THEN kv[2] ELSE hd[k]],
                                  log, file_bound)
        ELSE ScanHeaders(r.stream, left, hd, log, file_bound)

NoFile == [none |-> TRUE]

\* a parse_files that reads the header with a default: header.get(..., '')
parse_files_DefaultsDisposition(env, content_length, st) ==
    LET content_type == Get(env, "CONTENT_TYPE", <<>>)
        same == [file |-> NoFile, stream |-> st, lines |-> <<>>, raised |-> None]
    IN  IF ~StartsWith(content_type, MULTIPART) THEN same
        ELSE IF Len(split(content_type, <<"=">>)) < 2
        THEN [same EXCEPT !.raised = "IndexError"]
        ELSE IF ~IntOk(content_length)
        THEN [same EXCEPT !.raised = "ValueError"]
        ELSE LET file_bound == split(content_type, <<"=">>)[2]
                 sc == ScanHeaders(st, int(content_length), <<>>, <<>>, file_bound)
                 cd == <<"C", "o", "n", "t", "e", "n", "t", "-", "D", "i", "s", "p", "o", "s", "i", "t", "i", "o", "n">>
             IN  IF sc.raised # None
                 THEN [file |-> NoFile, stream |-> sc.stream, lines |-> sc.lines,
                       raised |-> sc.raised]
                 ELSE IF cd \notin DOMAIN sc.header
                 THEN [file |-> [binary_file_bound |-> file_bound,
                                 body_size |-> sc.length,
                                 name |-> _extract_file_name(<<>>)],
                       stream |-> sc.stream, lines |-> sc.lines, raised |-> None]
                 ELSE [file |-> [binary_file_bound |-> file_bound,
                                 body_size |-> sc.length,
                                 name |-> _extract_file_name(sc.header[cd])],
                       stream |-> sc.stream, lines |-> sc.lines, raised |-> None]
\* parse_files: [file, stream, lines, raised]
parse_files(env, content_length, st) ==
    LET content_type == Get(env, "CONTENT_TYPE", <<>>)
        same == [file |-> NoFile, stream |-> st, lines |-> <<>>, raised |-> None]
    IN  IF ~StartsWith(content_type, MULTIPART) THEN same
        ELSE IF Len(split(content_type, <<"=">>)) < 2
        THEN [same EXCEPT !.raised = "IndexError"]
        ELSE IF ~IntOk(content_length)
        THEN [same EXCEPT !.raised = "ValueError"]
        ELSE LET file_bound == split(content_type, <<"=">>)[2]
                 sc == ScanHeaders(st, int(content_length), <<>>, <<>>, file_bound)
                 cd == <<"C", "o", "n", "t", "e", "n", "t", "-", "D", "i", "s", "p", "o", "s", "i", "t", "i", "o", "n">>
             IN  IF sc.raised # None
                 THEN [file |-> NoFile, stream |-> sc.stream, lines |-> sc.lines,
                       raised |-> sc.raised]
                 ELSE IF cd \notin DOMAIN sc.header
                 THEN [file |-> NoFile, stream |-> sc.stream, lines |-> sc.lines,
                       raised |-> "KeyError"]
                 ELSE [file |-> [binary_file_bound |-> file_bound,
                                 body_size |-> sc.length,
                                 name |-> _extract_file_name(sc.header[cd])],
                       stream |-> sc.stream, lines |-> sc.lines, raised |-> None]

\* the non-empty pieces of the unquoted query string
QueryPieces(query_string) ==
    LET ps == split(unquote(query_string), <<"&">>)
    IN  SelectSeq(ps, LAMBDA p : p # <<>>)

\* k, v = raw_kv.split('='): fails unless there are exactly two parts
QueryOk(pieces) == \A i \in DOMAIN pieces : Len(split(pieces[i], <<"=">>)) = 2

\* GET_params[k] = v in order: the last value of a key wins
GetParams(pieces) ==
    LET kvs == [i \in DOMAIN pieces |-> split(pieces[i], <<"=">>)]
    IN  [k \in {kvs[i][1] : i \in DOMAIN kvs} |->
            kvs[SetMax({i \in DOMAIN kvs : kvs[i][1] = k})][2]]

\* urllib.parse.parse_qs(qs): blank pairs, pairs without '=' and pairs with an
\* empty value are dropped; '+' becomes a blank and name and value are unquoted;
\* the values of a name are collected in order
parse_qs(qs) ==
    LET ps   == split(qs, <<"&">>)
        nvs  == [i \in DOMAIN ps |-> split1(ps[i], <<"=">>)]
        kept == SelectSeq(nvs, LAMBDA nv : Len(nv) = 2 /\ nv[2] # <<>>)
        name(nv)  == unquote(PlusToSpace(nv[1]))
        value(nv) == unquote(PlusToSpace(nv[2]))
    IN  [k \in {name(kept[i]) : i \in DOMAIN kept} |->
            LET mine == SelectSeq(kept, LAMBDA nv : name(nv) = k)
            IN  [j \in DOMAIN mine |-> value(mine[j])]]

\* the guard of the form branch of parse_get_post: body_size and not self.file
FormBranch_IgnoresFile(body_size, f) == body_size # <<>>
FormBranch(body_size, f) == body_size # <<>> /\ f = NoFile

\* parse_get_post: [GET_params, POST_params, stream, read, raised, at]
parse_get_post(env, f, st) ==
    LET same == [GET_params |-> <<>>, POST_params |-> <<>>, stream |-> st,
                 read |-> <<>>, raised |-> None, at |-> None]
    IN  IF ~Has(env, "QUERY_STRING")
        THEN [same EXCEPT !.raised = "KeyError", !.at = "query"]
        ELSE LET pieces == QueryPieces(env["QUERY_STRING"])
             IN  IF ~QueryOk(pieces)
                 THEN [same EXCEPT !.raised = "ValueError", !.at = "query"]
                 ELSE LET g == GetParams(pieces)
                          body_size == Get(env, "CONTENT_LENGTH", <<>>)
                      IN  IF ~FormBranch(body_size, f)
                          THEN [same EXCEPT !.GET_params = g]
                          ELSE IF ~IntOk(body_size)
                          THEN [same EXCEPT !.GET_params = g,
                                            !.raised = "ValueError", !.at = "form"]
                          ELSE LET r == StreamRead(st, int(body_size))
                               IN  [GET_params  |-> g,
                                    POST_params |-> parse_qs(unquote(r.bytes)),
                                    stream      |-> r.stream,
                                    read        |-> <<[n |-> int(body_size),
                                                      got |-> r.bytes]>>,
                                    raised      |-> None,
                                    at          |-> None]

DefaultQuery == [qs |-> <<>>, valid |-> TRUE, pairs |-> <<>>]

NoRequest == [none |-> TRUE]

ReqIdle ==
    /\ environ = <<>>
    /\ request = NoRequest
    /\ GET_params = <<>>
    /\ POST_params = <<>>
    /\ rq_pc = "idle"
    /\ rq_exc = [type |-> None, at |-> None]
    /\ rq_reads = <<>>
    /\ client = DefaultQuery

\* the upload variables while no upload is in progress
SaveIdle ==
    /\ payload = <<>>
    /\ wsgi_input = [data |-> <<>>, pos |-> 0]
    /\ file = NoFile
    /\ sv_pc = "idle"
    /\ cur_size = 0
    /\ chunk = <<>>
    /\ dest = [exists |-> FALSE, data |-> <<>>]
    /\ reads = <<>>
    /\ writes = <<>>
    /\ exc = None
    /\ sv_rv = None
    /\ flashes = <<>>

NoResponse == [none |-> TRUE]

\* the response variables while no response is being emitted
RespIdle ==
    /\ response = NoResponse
    /\ rp_pc = "idle"
    /\ size = 0
    /\ index = 0
    /\ res = <<>>
    /\ events = <<>>
    /\ start_calls = <<>>
    /\ body = [mode |-> "none"]

\* the gateway variables outside a gateway call
GwIdle ==
    /\ gw_pc = "idle"
    /\ _route_handlers = {}
    /\ static_files = {}
    /\ handler_rv = [kind |-> "none", val |-> NoResponse]
    /\ handler_calls = <<>>
    /\ err_calls = 0

ViewIdle ==
    /\ sessions = {}
    /\ current_users = <<>>
    /\ users = <<>>
    /\ dirs = {}
    /\ fsfiles = {}
    /\ vw_pc = "idle"
    /\ vw_req = [view |-> "none"]
    /\ vw_rv = [kind |-> "none"]
    /\ act_log = <<>>
    /\ stale = <<>>
    /\ n_derived = 0
    /\ n_req = 0
    /\ revoked = {}
    /\ issued = <<>>

----------------------------------------------------------------------------
(* Inputs of the upload specification *)

Boundaries == {<<"X">>, <<"X", "Y", "Z">>}

SuffixBytes == {"a", "-", "LF", "X"}

Suffixes == UNION {[1..n -> SuffixBytes] : n \in 0..MaxSuffix}

FillLens ==
    {n \in UNION {{k * read_chunk_size + d : d \in (0 - EdgeSlack)..EdgeSlack} :
                  k \in 0..MaxChunks} : n >= 0}

Filler(n) == [i \in 1..n |-> IF i % 2 = 1 THEN "a" ELSE "b"]

FileNames == {<<"f", ".", "t">>, <<"f", "/", "t">>}

\* the stream holds the payload followed by the closing marker, and body_size
\* is the length of that span
SaveInit ==
    \E n \in FillLens, sfx \in Suffixes, b \in Boundaries, nm \in FileNames :
        /\ payload = Filler(n) \o sfx
        /\ wsgi_input = [data |-> payload \o tail(b), pos |-> 0]
        /\ file = [binary_file_bound |-> b,
                   body_size |-> Len(payload) + Len(tail(b)),
                   name |-> nm]
        /\ sv_pc = "upload"
        /\ cur_size = 0
        /\ chunk = <<>>
        /\ dest = [exists |-> FALSE, data |-> <<>>]
        /\ reads = <<>>
        /\ writes = <<>>
        /\ exc = None
        /\ sv_rv = None
        /\ flashes = <<>>
        /\ RespIdle
        /\ ReqIdle
        /\ GwIdle
        /\ ViewIdle

----------------------------------------------------------------------------
(* views.py MainView.handle_upload_file and request.py save_to_file *)

\* handle_upload_file up to the call of save_to_file
UploadBegin ==
    /\ sv_pc = "upload"
    /\ IF ~is_allowed_identifier(file.name)
       THEN /\ flashes' = Append(flashes,
                   Flash("Insufficient filename. Try to rename before upload", 2))
            /\ sv_pc' = "done"
       ELSE /\ sv_pc' = "open"
            /\ UNCHANGED flashes
    /\ UNCHANGED <<wsgi_input, file, cur_size, chunk, dest, reads, writes, exc, sv_rv, payload>>
    /\ UNCHANGED <<respVars, reqVars, gwVars, viewVars>>

\* an exception raised inside the try block at `stage`
Raise(stage) ==
    /\ exc' = stage
    /\ sv_pc' = IF SaveOnException(stage) = "caught" THEN "except" ELSE "raised"

\* with open(file_path, 'wb') as f: cur_size = self.body_size
SaveOpen ==
    /\ sv_pc = "open"
    /\ \/ /\ dest' = [exists |-> TRUE, data |-> <<>>]
          /\ cur_size' = file.body_size
          /\ sv_pc' = "loop"
          /\ UNCHANGED exc
       \/ /\ Raise("open")
          /\ UNCHANGED <<dest, cur_size>>
    /\ UNCHANGED <<wsgi_input, file, chunk, reads, writes, sv_rv, flashes, payload>>
    /\ UNCHANGED <<respVars, reqVars, gwVars, viewVars>>

\* one read of the while loop
SaveRead ==
    /\ sv_pc = "loop"
    /\ cur_size # 0
    /\ LET n == IF read_chunk_size > cur_size THEN cur_size ELSE read_chunk_size
           r == StreamRead(wsgi_input, n)
       IN  /\ reads' = Append(reads, n)
           /\ \/ /\ wsgi_input' = r.stream
                 /\ IF read_chunk_size > cur_size
                    THEN /\ chunk' = rstrip(r.bytes, tail(file.binary_file_bound))
                         /\ cur_size' = 0
                    ELSE /\ chunk' = r.bytes
                         /\ cur_size' = cur_size - read_chunk_size
                 /\ sv_pc' = "write"
                 /\ UNCHANGED exc
              \/ /\ Raise("read")
                 /\ UNCHANGED <<wsgi_input, chunk, cur_size>>
    /\ UNCHANGED <<file, dest, writes, sv_rv, flashes, payload>>
    /\ UNCHANGED <<respVars, reqVars, gwVars, viewVars>>

\* f.write(chunk)
SaveWrite ==
    /\ sv_pc = "write"
    /\ \/ /\ dest' = [dest EXCEPT !.data = @ \o chunk]
          /\ writes' = Append(writes, Len(chunk))
          /\ sv_pc' = "loop"
          /\ UNCHANGED exc
       \/ /\ Raise("write")
          /\ UNCHANGED <<dest, writes>>
    /\ UNCHANGED <<wsgi_input, file, cur_size, chunk, reads, sv_rv, flashes, payload>>
    /\ UNCHANGED <<respVars, reqVars, gwVars, viewVars>>

\* the loop ends, the file is closed: return True
SaveReturnTrue ==
    /\ sv_pc = "loop"
    /\ cur_size = 0
    /\ sv_rv' = "True"
    /\ sv_pc' = "returned"
    /\ UNCHANGED <<wsgi_input, file, cur_size, chunk, dest, reads, writes, exc, flashes, payload>>
    /\ UNCHANGED <<respVars, reqVars, gwVars, viewVars>>

\* except Exception as e: log.error(e); return False
SaveReturnFalse ==
    /\ sv_pc = "except"
    /\ sv_rv' = "False"
    /\ sv_pc' = "returned"
    /\ UNCHANGED <<wsgi_input, file, cur_size, chunk, dest, reads, writes, exc, flashes, payload>>
    /\ UNCHANGED <<respVars, reqVars, gwVars, viewVars>>

\* handle_upload_file after save_to_file returned
UploadEnd ==
    /\ sv_pc = "returned"
    /\ flashes' = Append(flashes,
            IF sv_rv = "True" THEN Flash("Uploaded file successfully", 1)
                     ELSE Flash("Uploaded failed due to unhandled error", 2))
    /\ sv_pc' = "done"
    /\ UNCHANGED <<wsgi_input, file, cur_size, chunk, dest, reads, writes, exc, sv_rv, payload>>
    /\ UNCHANGED <<respVars, reqVars, gwVars, viewVars>>

SaveNext ==
    \/ UploadBegin
    \/ SaveOpen
    \/ SaveRead
    \/ SaveWrite
    \/ SaveReturnTrue
    \/ SaveReturnFalse
    \/ UploadEnd

SpecSave == SaveInit /\ [][SaveNext]_vars

RECURSIVE SumSeq(_)
SumSeq(s) == IF s = <<>> THEN 0 ELSE s[1] + SumSeq(SubSeq(s, 2, Len(s)))

\* C1: boundary-trim round trip.  Whenever save_to_file has returned True for a
\* stream that held the payload followed by \r\n--B--\r\n, the destination
\* file holds exactly the payload.
C1_RoundTrip ==
    (sv_pc \in {"returned", "done"} /\ sv_rv = "True") => dest.data = payload

\* C2: save_to_file never raises to its caller.  An exception at open, read or
\* write never leaves the call; the call returns False exactly when one was
\* raised, returns True only after every chunk read was written and the whole
\* span was requested, and handle_upload_file then flashes the failure message
\* (level 2) on False and the success message (level 1) on True.
C2_NeverRaises ==
    /\ sv_pc # "raised"
    /\ sv_pc \in {"returned", "done"} /\ sv_rv # None =>
            /\ sv_rv = "False" <=> exc # None
            /\ sv_rv = "True" =>
                    /\ cur_size = 0
                    /\ Len(writes) = Len(reads)
                    /\ SumSeq(reads) = file.body_size
    /\ sv_pc = "done" /\ sv_rv = "False" =>
            flashes = <<Flash("Uploaded failed due to unhandled error", 2)>>
    /\ sv_pc = "done" /\ sv_rv = "True" =>
            flashes = <<Flash("Uploaded file successfully", 1)>>

\* a write failed after an earlier chunk was already on disk, and the view
\* reported the failure
C2_Witness ==
    /\ sv_pc = "done"
    /\ exc = "write"
    /\ Len(writes) >= 1
    /\ sv_rv = "False"
    /\ flashes = <<Flash("Uploaded failed due to unhandled error", 2)>>

----------------------------------------------------------------------------
(* response.py: Response *)

body_chunk_size == 1024

\* Response.__init__; rv is [type |-> "str" | "bytes" | "file", val |-> sequence];
\* headers is the dict as a sequence of <<key, value>> in insertion order
Response(rv, static, status_no, mimetype) ==
    [rv |-> rv, static |-> static, status_no |-> status_no, status |-> None,
     mimetype |-> mimetype, headers |-> <<>>]

\* str(n) of an integer: decimal digits, most significant first, '-' if negative
RECURSIVE StrNat(_)
StrNat(n) == IF n < 10 THEN Digits[n + 1]
             ELSE StrNat(n \div 10) \o Digits[(n % 10) + 1]

str(n) == IF n < 0 THEN "-" \o StrNat(0 - n) ELSE StrNat(n)

\* the if/elif chain of build_status on status_cls = status_no // 100
status_msg_NoRedirect(status_no) ==
    LET status_cls == status_no \div 100
    IN  IF status_cls = 1 THEN " Info"
        ELSE IF status_cls = 2 THEN " OK"
        ELSE IF status_cls = 4 THEN " Client Error"
        ELSE " Server Error"
status_msg(status_no) ==
    LET status_cls == status_no \div 100
    IN  IF status_cls = 1 THEN " Info"
        ELSE IF status_cls = 2 THEN " OK"
        ELSE IF status_cls = 3 THEN " Redirect"
        ELSE IF status_cls = 4 THEN " Client Error"
        ELSE " Server Error"

build_status(r) == [r EXCEPT !.status = str(r.status_no) \o status_msg(r.status_no)]

\* Python s[lo:hi] for 0 <= lo
Slice(s, lo, hi) == SubSeq(s, lo + 1, Min(hi, Len(s)))

\* UTF-8 of one character: the characters of the model are ASCII except U+00E9
Utf8(c) == IF c = "U+00E9" THEN <<"C3", "A9">> ELSE <<c>>

\* str.encode(): the UTF-8 bytes of every character, in order
RECURSIVE encode(_)
encode(s) ==
    IF s = <<>> THEN <<>>
    ELSE IF Len(s) = 1 THEN Utf8(s[1])
    ELSE LET h == Len(s) \div 2
         IN  encode(SubSeq(s, 1, h)) \o encode(SubSeq(s, h + 1, Len(s)))

\* the slice one iteration of prepare_rv takes when a full chunk remains
FullSlice_Short(rv, i) == Slice(rv, i, i + body_chunk_size - 1)
FullSlice(rv, i) == Slice(rv, i, i + body_chunk_size)

\* local state of prepare_rv at loop entry
PrepInit(r) == [size |-> Len(r.rv.val), index |-> 0, res |-> <<>>, raised |-> FALSE]

\* one iteration of the while loop of prepare_rv; bytes has no encode():
\* a bytes body raises AttributeError at the .encode() call
PrepStep(r, st) ==
    IF st.size > body_chunk_size
    THEN IF r.rv.type # "str"
         THEN [st EXCEPT !.size = @ - body_chunk_size, !.raised = TRUE]
         ELSE [size   |-> st.size - body_chunk_size,
               res    |-> Append(st.res, encode(FullSlice(r.rv.val, st.index))),
               index  |-> st.index + body_chunk_size,
               raised |-> FALSE]
    ELSE IF r.rv.type # "str"
         THEN [st EXCEPT !.size = 0, !.raised = TRUE]
         ELSE [size   |-> 0,
               res    |-> Append(st.res, encode(Slice(r.rv.val, st.index, Len(r.rv.val)))),
               index  |-> Len(r.rv.val) - 1,
               raised |-> FALSE]

\* the whole loop
RECURSIVE PrepLoop(_, _)
PrepLoop(r, st) == IF st.raised \/ st.size = 0 THEN st ELSE PrepLoop(r, PrepStep(r, st))

prepare_rv(r) == PrepLoop(r, PrepInit(r))

----------------------------------------------------------------------------
(* Specification of build_status over a range of codes *)

MinStatus == 0 - 150
MaxStatus == 1250

StatusInit ==
    /\ \E n \in MinStatus..MaxStatus :
          response = Response([type |-> "str", val |-> <<"o", "k">>], FALSE, n, "text/html")
    /\ rp_pc = "build_status"
    /\ size = 0
    /\ index = 0
    /\ res = <<>>
    /\ events = <<>>
    /\ start_calls = <<>>
    /\ body = [mode |-> "none"]
    /\ SaveIdle
    /\ ReqIdle
    /\ GwIdle
    /\ ViewIdle

BuildStatus ==
    /\ rp_pc = "build_status"
    /\ response' = build_status(response)
    /\ events' = Append(events, "build_status")
    /\ rp_pc' = "status_built"
    /\ UNCHANGED <<size, index, res, start_calls, body>>
    /\ UNCHANGED <<saveVars, reqVars, gwVars, viewVars>>

StatusNext == BuildStatus

SpecStatus == StatusInit /\ [][StatusNext]_vars

\* the class message by the range the code lies in
ClassMessage(n) ==
    IF n >= 100 /\ n <= 199 THEN " Info"
    ELSE IF n >= 200 /\ n <= 299 THEN " OK"
    ELSE IF n >= 300 /\ n <= 399 THEN " Redirect"
    ELSE IF n >= 400 /\ n <= 499 THEN " Client Error"
    ELSE " Server Error"

\* C7: after build_status, status is the decimal code followed by the class
\* message: 1xx Info, 2xx OK, 3xx Redirect, 4xx Client Error, Server Error for
\* every other integer (5xx, 600 and above, below 100); 201 gives "201 OK",
\* 404 "404 Client Error", 500 "500 Server Error", 301 "301 Redirect", 150 "150 Info".
C7_StatusLine ==
    rp_pc = "status_built" =>
        /\ response.status = ToString(response.status_no) \o ClassMessage(response.status_no)
        /\ response.status_no = 201 => response.status = "201 OK"
        /\ response.status_no = 404 => response.status = "404 Client Error"
        /\ response.status_no = 500 => response.status = "500 Server Error"
        /\ response.status_no = 301 => response.status = "301 Redirect"
        /\ response.status_no = 150 => response.status = "150 Info"
        /\ response.status_no = 600 => response.status = "600 Server Error"
        /\ response.status_no = 99 => response.status = "99 Server Error"
        /\ response.status_no = 1150 => response.status = "1150 Server Error"
        /\ response.status_no = 0 - 50 => response.status = "-50 Server Error"

\* build_status ran on a redirect code
C7_Witness == rp_pc = "status_built" /\ response.status = "301 Redirect"

----------------------------------------------------------------------------
(* Specification of prepare_rv over text bodies around the chunk edges *)

\* body lengths lie within BodySlack of a multiple of body_chunk_size
BodySlack == 2
\* ... up to MaxBodyChunks whole chunks
MaxBodyChunks == 3
\* the character pattern of the body starts at any of MaxShift + 1 offsets
MaxShift == 2

TextChars == <<"a", "U+00E9", "b">>

BodyLens ==
    {n \in UNION {{k * body_chunk_size + d : d \in (0 - BodySlack)..BodySlack} :
                  k \in 0..MaxBodyChunks} : n >= 0}

Body(n, k) == [i \in 1..n |-> TextChars[((i + k) % 3) + 1]]

ChunksInit ==
    /\ \E n \in BodyLens, k \in 0..MaxShift :
          response = Response([type |-> "str", val |-> Body(n, k)], FALSE, 200, "text/html")
    /\ rp_pc = "prepare_rv"
    /\ size = 0
    /\ index = 0
    /\ res = <<>>
    /\ events = <<>>
    /\ start_calls = <<>>
    /\ body = [mode |-> "none"]
    /\ SaveIdle
    /\ ReqIdle
    /\ GwIdle
    /\ ViewIdle

\* size = len(self.rv); index = 0; res = []
PrepareRvBegin ==
    /\ rp_pc = "prepare_rv"
    /\ size' = PrepInit(response).size
    /\ index' = PrepInit(response).index
    /\ res' = PrepInit(response).res
    /\ rp_pc' = "loop"
    /\ UNCHANGED <<response, events, start_calls, body>>
    /\ UNCHANGED <<saveVars, reqVars, gwVars, viewVars>>

\* one iteration of while size:
PrepareRvStep ==
    /\ rp_pc = "loop"
    /\ size # 0
    /\ LET st == PrepStep(response, [size |-> size, index |-> index, res |-> res,
                                     raised |-> FALSE])
       IN  /\ size' = st.size
           /\ index' = st.index
           /\ res' = st.res
           /\ rp_pc' = IF st.raised THEN "raised" ELSE "loop"
    /\ UNCHANGED <<response, events, start_calls, body>>
    /\ UNCHANGED <<saveVars, reqVars, gwVars, viewVars>>

\* return res
PrepareRvReturn ==
    /\ rp_pc = "loop"
    /\ size = 0
    /\ body' = [mode |-> "chunks", chunks |-> res]
    /\ events' = Append(events, "return_chunks")
    /\ rp_pc' = "returned"
    /\ UNCHANGED <<response, size, index, res, start_calls>>
    /\ UNCHANGED <<saveVars, reqVars, gwVars, viewVars>>

ChunksNext ==
    \/ PrepareRvBegin
    \/ PrepareRvStep
    \/ PrepareRvReturn

SpecChunks == ChunksInit /\ [][ChunksNext]_vars

\* concatenation of a sequence of chunks
RECURSIVE Concat(_)
Concat(ss) == IF ss = <<>> THEN <<>> ELSE ss[1] \o Concat(SubSeq(ss, 2, Len(ss)))

CeilDiv(a, b) == (a + b - 1) \div b

C8_Returned ==
    rp_pc = "returned" =>
        LET L == Len(response.rv.val)
        IN  /\ Len(res) = CeilDiv(L, body_chunk_size)
            /\ \A i \in 1..Len(res) :
                  /\ res[i] = encode(SubSeq(response.rv.val,
                                            (i - 1) * body_chunk_size + 1,
                                            Min(i * body_chunk_size, L)))
                  /\ i < Len(res) => Min(i * body_chunk_size, L) - (i - 1) * body_chunk_size
                                        = body_chunk_size
                  /\ i = Len(res) => /\ L - (i - 1) * body_chunk_size >= 1
                                     /\ L - (i - 1) * body_chunk_size <= body_chunk_size
            /\ Concat(res) = encode(response.rv.val)
            /\ L = 0 => res = <<>>

\* every iteration appends one chunk and leaves size at the units not yet
\* sliced, so the loop ends after ceil(L/1024) iterations
C8_Progress ==
    rp_pc = "loop" =>
        LET L == Len(response.rv.val)
        IN  /\ size >= 0
            /\ size = IF L > Len(res) * body_chunk_size
                      THEN L - Len(res) * body_chunk_size ELSE 0
            /\ Len(res) <= CeilDiv(L, body_chunk_size)

\* C8: for every non-static text body of length L, prepare_rv terminates and
\* returns ceil(L/1024) chunks in order, each but the last covering exactly
\* 1024 units of the body, the last between 1 and 1024, their concatenation
\* being the encoded body; an empty body yields the empty sequence.
C8_Chunks == C8_Returned /\ C8_Progress /\ rp_pc # "raised"

\* a body of exactly two chunks was sliced into two full chunks
C8_Witness ==
    /\ rp_pc = "returned"
    /\ Len(response.rv.val) = 2 * body_chunk_size
    /\ Len(res) = 2
    /\ Len(res[2]) > body_chunk_size

----------------------------------------------------------------------------
(* Inputs of the request specification *)

\* a query value has up to MaxValLen characters
MaxValLen == 2
\* a query string has up to MaxPairs pairs
MaxPairs == 2

QKeys == {<<"k">>, <<"j">>}
QValChars == {"a", "&", "="}
QValues == UNION {[1..n -> QValChars] : n \in 1..MaxValLen}

\* sequences of key/value pairs with pairwise distinct keys
PairSeqs ==
    UNION {{ps \in [1..n -> QKeys \X QValues] :
               \A i, j \in 1..n : i # j => ps[i][1] # ps[j][1]} : n \in 0..MaxPairs}

\* what a client sends for the pairs: quote(k)=quote(v) joined by '&'
RECURSIVE EncodePairs(_)
EncodePairs(ps) ==
    IF ps = <<>> THEN <<>>
    ELSE quote(ps[1][1]) \o <<"=">> \o quote(ps[1][2])
         \o (IF Len(ps) = 1 THEN <<>> ELSE <<"&">> \o EncodePairs(SubSeq(ps, 2, Len(ps))))

MalformedQueries == {<<"a">>, <<"k", "=", "a", "&", "&", "j", "=", "b">>, <<"k", "=", "a", "=", "b">>}

QueryCases ==
    {[qs |-> EncodePairs(ps), valid |-> TRUE, pairs |-> ps] : ps \in PairSeqs}
    \cup {[qs |-> q, valid |-> FALSE, pairs |-> <<>>] : q \in MalformedQueries}

CRLF == <<"CR", "LF">>

URLENCODED == <<"a", "p", "p", "l", "i", "c", "a", "t", "i", "o", "n", "/", "x", "-", "w", "w", "w", "-", "f", "o", "r", "m", "-", "u", "r", "l", "e", "n", "c", "o", "d", "e", "d">>

FormBodies == {<<>>, <<"k", "=", "a">>, <<"k", "=", "a", "&", "k", "=", "b">>, <<"k">>, <<"k", "=", "%", "2", "6">>, <<"a", "=", "&", "k", "=", "b", "+", "c">>}

\* header blocks of the first part (the blank line excluded)
DispositionWithName ==
    <<"C", "o", "n", "t", "e", "n", "t", "-", "D", "i", "s", "p", "o", "s", "i", "t", "i", "o", "n", ":", " ", "f", "o", "r", "m", "-", "d", "a", "t", "a", ";", " ", "n", "a", "m", "e", "=">> \o <<"DQ">> \o <<"f", "i", "l", "e">> \o <<"DQ">>
    \o <<";", " ", "f", "i", "l", "e", "n", "a", "m", "e", "=">> \o <<"DQ">> \o <<"f", ".", "t">> \o <<"DQ">> \o CRLF
DispositionNoName ==
    <<"C", "o", "n", "t", "e", "n", "t", "-", "D", "i", "s", "p", "o", "s", "i", "t", "i", "o", "n", ":", " ", "f", "o", "r", "m", "-", "d", "a", "t", "a", ";", " ", "n", "a", "m", "e", "=">> \o <<"DQ">> \o <<"f", "i", "l", "e">> \o <<"DQ">> \o CRLF
DispositionBoundaryInName ==
    <<"C", "o", "n", "t", "e", "n", "t", "-", "D", "i", "s", "p", "o", "s", "i", "t", "i", "o", "n", ":", " ", "f", "o", "r", "m", "-", "d", "a", "t", "a", ";", " ", "n", "a", "m", "e", "=">> \o <<"DQ">> \o <<"f", "i", "l", "e">> \o <<"DQ">>
    \o <<";", " ", "f", "i", "l", "e", "n", "a", "m", "e", "=">> \o <<"DQ">> \o <<"X", ".", "t">> \o <<"DQ">> \o CRLF
PartType == <<"C", "o", "n", "t", "e", "n", "t", "-", "T", "y", "p", "e", ":", " ", "t", "e", "x", "t", "/", "p", "l", "a", "i", "n">> \o CRLF
PartTypeLF == <<"C", "o", "n", "t", "e", "n", "t", "-", "T", "y", "p", "e", ":", " ", "t", "e", "x", "t", "/", "p", "l", "a", "i", "n">> \o <<"LF">>

HeaderBlocks ==
    {DispositionWithName \o PartType,
     DispositionNoName,
     PartType,
     DispositionBoundaryInName \o PartType,
     PartTypeLF \o DispositionWithName,
     <<"B", "a", "d">> \o CRLF \o DispositionWithName}

\* <--B> CRLF <headers> CRLF <payload> CRLF --B-- CRLF
MultipartBody(b, hs, p) == <<"-", "-">> \o b \o CRLF \o hs \o CRLF \o p \o tail(b)

MultipartType(b) == <<"m", "u", "l", "t", "i", "p", "a", "r", "t", "/", "f", "o", "r", "m", "-", "d", "a", "t", "a", ";", " ", "b", "o", "u", "n", "d", "a", "r", "y", "=">> \o b

\* [ct, body, extra]: the content type (<<>> when the key is absent), the body
\* the client declares, and bytes that follow it on the stream
BodyCases ==
    {[ct |-> ct, body |-> fb, extra |-> ex] :
        ct \in {<<>>, URLENCODED}, fb \in FormBodies, ex \in {<<>>, <<"z">>}}
    \cup {[ct |-> MultipartType(<<"X">>),
           body |-> MultipartBody(<<"X">>, hs, <<"k", "=", "a">>), extra |-> <<>>] :
        hs \in HeaderBlocks}
    \cup {[ct |-> MULTIPART, body |-> MultipartBody(<<"X">>, PartType, <<"k", "=", "a">>),
           extra |-> <<>>]}

AllKeys == RequiredKeys \cup {"QUERY_STRING", "CONTENT_TYPE", "HTTP_HOST"}

\* the gateway environment for a query string, a body case, a CONTENT_LENGTH
\* mode ("absent", "empty" or "exact") and a set of keys left out
EnvironFor(path, qs, bc, cl, drop) ==
    LET full == [k \in AllKeys |->
                    IF k = "wsgi.input" THEN "stream"
                    ELSE IF k = "REQUEST_METHOD" THEN "POST"
                    ELSE IF k = "PATH_INFO" THEN path
                    ELSE IF k = "HTTP_HOST" THEN "host"
                    ELSE IF k = "QUERY_STRING" THEN qs
                    ELSE IF k = "CONTENT_TYPE" THEN bc.ct
                    ELSE IF cl = "exact" THEN DigitsOf(Len(bc.body)) ELSE <<>>]
        keys == ((AllKeys \ drop)
                 \ (IF cl = "absent" THEN {"CONTENT_LENGTH"} ELSE {}))
                 \ (IF bc.ct = <<>> THEN {"CONTENT_TYPE"} ELSE {})
    IN  [k \in keys |-> full[k]]

Environ(qs, bc, cl, drop) == EnvironFor(<<"/">>, qs, bc, cl, drop)

DefaultBody == [ct |-> <<>>, body |-> <<>>, extra |-> <<>>]

Droppable == {"wsgi.input", "REQUEST_METHOD", "PATH_INFO", "QUERY_STRING"}

RequestCases ==
    {[q |-> q, bc |-> DefaultBody, cl |-> "empty", drop |-> {}] : q \in QueryCases}
    \cup {[q |-> DefaultQuery, bc |-> bc, cl |-> cl, drop |-> d] :
            bc \in BodyCases, cl \in {"absent", "empty", "exact"},
            d \in {{}} \cup {{k} : k \in Droppable}}

RequestInit ==
    /\ \E c \in RequestCases :
          /\ environ = Environ(c.q.qs, c.bc, c.cl, c.drop)
          /\ wsgi_input = [data |-> c.bc.body \o c.bc.extra, pos |-> 0]
          /\ client = c.q
    /\ request = NoRequest
    /\ GET_params = <<>>
    /\ POST_params = <<>>
    /\ rq_pc = "init"
    /\ rq_exc = [type |-> None, at |-> None]
    /\ rq_reads = <<>>
    /\ payload = <<>>
    /\ file = NoFile
    /\ sv_pc = "idle"
    /\ cur_size = 0
    /\ chunk = <<>>
    /\ dest = [exists |-> FALSE, data |-> <<>>]
    /\ reads = <<>>
    /\ writes = <<>>
    /\ exc = None
    /\ sv_rv = None
    /\ flashes = <<>>
    /\ RespIdle
    /\ GwIdle
    /\ ViewIdle

----------------------------------------------------------------------------
(* Request.__init__ *)

\* the field assignments up to self.file = None
ReqInitFields ==
    /\ rq_pc = "init"
    /\ IF RequiredKeys \subseteq DOMAIN environ
       THEN /\ request' = [headers |-> [k \in DOMAIN environ \cap HttpKeys |-> environ[k]],
                           method |-> environ["REQUEST_METHOD"],
                           path_info |-> environ["PATH_INFO"],
                           content_length |-> environ["CONTENT_LENGTH"]]
            /\ rq_pc' = "parse_files"
            /\ UNCHANGED rq_exc
       ELSE /\ rq_exc' = [type |-> "KeyError", at |-> "init"]
            /\ rq_pc' = "raised"
            /\ UNCHANGED request
    /\ GET_params' = <<>>
    /\ POST_params' = <<>>
    /\ file' = NoFile
    /\ UNCHANGED <<environ, rq_reads, client, wsgi_input>>
    /\ UNCHANGED <<payload, sv_pc, cur_size, chunk, dest, reads, writes, exc, sv_rv, flashes>>
    /\ UNCHANGED <<respVars, gwVars, viewVars>>

\* self.parse_files()
ReqParseFiles ==
    /\ rq_pc = "parse_files"
    /\ LET r == parse_files(environ, request.content_length, wsgi_input)
       IN  /\ wsgi_input' = r.stream
           /\ rq_reads' = rq_reads \o [i \in DOMAIN r.lines |->
                              [by |-> "parse_files", n |-> 0 - 1, got |-> r.lines[i]]]
           /\ file' = r.file
           /\ IF r.raised # None
              THEN /\ rq_exc' = [type |-> r.raised, at |-> "parse_files"]
                   /\ rq_pc' = "raised"
              ELSE /\ rq_pc' = "parse_get_post"
                   /\ UNCHANGED rq_exc
    /\ UNCHANGED <<environ, request, GET_params, POST_params, client>>
    /\ UNCHANGED <<payload, sv_pc, cur_size, chunk, dest, reads, writes, exc, sv_rv, flashes>>
    /\ UNCHANGED <<respVars, gwVars, viewVars>>

\* self.parse_get_post()
ReqParseGetPost ==
    /\ rq_pc = "parse_get_post"
    /\ LET r == parse_get_post(environ, file, wsgi_input)
       IN  /\ wsgi_input' = r.stream
           /\ rq_reads' = rq_reads \o [i \in DOMAIN r.read |->
                              [by |-> "parse_get_post", n |-> r.read[i].n,
                               got |-> Len(r.read[i].got)]]
           /\ GET_params' = r.GET_params
           /\ POST_params' = r.POST_params
           /\ IF r.raised # None
              THEN /\ rq_exc' = [type |-> r.raised, at |-> r.at]
                   /\ rq_pc' = "raised"
              ELSE /\ rq_pc' = "done"
                   /\ UNCHANGED rq_exc
    /\ UNCHANGED <<environ, request, client, file>>
    /\ UNCHANGED <<payload, sv_pc, cur_size, chunk, dest, reads, writes, exc, sv_rv, flashes>>
    /\ UNCHANGED <<respVars, gwVars, viewVars>>

RequestNext ==
    \/ ReqInitFields
    \/ ReqParseFiles
    \/ ReqParseGetPost

SpecRequest == RequestInit /\ [][RequestNext]_vars

IsMultipart(env) == StartsWith(Get(env, "CONTENT_TYPE", <<>>), MULTIPART)

\* the reads parse_get_post made on the stream
FormReads == SelectSeq(rq_reads, LAMBDA r : r.by = "parse_get_post")

\* C3: file and form consumption are mutually exclusive.  For every constructed
\* Request: a multipart content type gives a file, empty POST_params and no
\* read by parse_get_post; a set CONTENT_LENGTH with a non-multipart content
\* type gives no file and one read of exactly CONTENT_LENGTH bytes, parsed into
\* POST_params.  Never is a file set while POST_params is non-empty.
C3_Exclusive ==
    /\ ~(file # NoFile /\ POST_params # <<>>)
    /\ rq_pc = "done" =>
          LET cl == Get(environ, "CONTENT_LENGTH", <<>>)
          IN  /\ IsMultipart(environ) =>
                    /\ file # NoFile
                    /\ POST_params = <<>>
                    /\ FormReads = <<>>
              /\ (cl # <<>> /\ ~IsMultipart(environ)) =>
                    /\ file = NoFile
                    /\ Len(FormReads) = 1
                    /\ FormReads[1].n = int(cl)
                    /\ FormReads[1].got = int(cl)
                    /\ wsgi_input.pos = int(cl)
                    /\ POST_params = parse_qs(unquote(SubSeq(wsgi_input.data, 1, int(cl))))

\* a multipart request was constructed: the file is set, the part body is still
\* unread on the stream and no form parameter was parsed from it
C3_Witness ==
    /\ rq_pc = "done"
    /\ IsMultipart(environ)
    /\ file # NoFile
    /\ file.body_size = Len(wsgi_input.data) - wsgi_input.pos
    /\ file.body_size > 0
    /\ POST_params = <<>>

\* the mapping a list of decoded pairs denotes
PairsMap(ps) == [k \in {ps[i][1] : i \in DOMAIN ps} |->
                    ps[CHOOSE i \in DOMAIN ps : ps[i][1] = k][2]]

\* C6: for every valid percent-encoded QUERY_STRING of N non-empty key=value
\* pairs with pairwise distinct keys, parse_get_post completes its query loop
\* and GET_params has exactly N entries, each key mapped to its decoded value.
C6_QueryPairs ==
    (client.valid /\ Has(environ, "QUERY_STRING")) =>
        /\ ~(rq_pc = "raised" /\ rq_exc.at = "query")
        /\ rq_pc = "done" =>
              /\ Cardinality(DOMAIN GET_params) = Len(client.pairs)
              /\ GET_params = PairsMap(client.pairs)

\* C9: an environment with REQUEST_METHOD, PATH_INFO, QUERY_STRING and the body
\* stream but neither CONTENT_TYPE nor CONTENT_LENGTH constructs a Request: no
\* exception, no file, empty form parameters, no read of the stream.
C9_OptionalKeys ==
    ( /\ {"wsgi.input", "REQUEST_METHOD", "PATH_INFO", "QUERY_STRING"} \subseteq DOMAIN environ
      /\ ~Has(environ, "CONTENT_TYPE")
      /\ ~Has(environ, "CONTENT_LENGTH")
      /\ client.pairs = <<>> )
    => /\ rq_pc # "raised"
       /\ rq_pc = "done" => (file = NoFile /\ POST_params = <<>> /\ rq_reads = <<>>)


----------------------------------------------------------------------------
(* response.py: Response.__call__ *)

\* dict assignment h[k] = v on a dict kept as <<key, value>> pairs in
\* insertion order
DictSet(h, k, v) ==
    IF \E i \in DOMAIN h : h[i][1] = k
    THEN [i \in DOMAIN h |-> IF h[i][1] = k THEN <<k, v>> ELSE h[i]]
    ELSE Append(h, <<k, v>>)

DictKeys(h) == {h[i][1] : i \in DOMAIN h}

\* 'text' in mimetype, for the mimetypes the application uses
HasText(mimetype) == mimetype \in {"text/html", "text/plain"}

\* build_headers on a fresh header dict: what is left of the handler's headers
build_headers_Reset(r) ==
    [r EXCEPT !.headers =
        <<<<"Content-Type",
            IF HasText(r.mimetype) THEN r.mimetype \o "; charset=utf-8" ELSE r.mimetype>>>>]
build_headers(r) ==
    [r EXCEPT !.headers =
        DictSet(@, "Content-Type",
                IF HasText(r.mimetype) THEN r.mimetype \o "; charset=utf-8" ELSE r.mimetype)]

\* self.build_headers()
BuildHeaders ==
    /\ rp_pc = "status_built"
    /\ response' = build_headers(response)
    /\ events' = Append(events, "build_headers")
    /\ rp_pc' = "headers_built"
    /\ UNCHANGED <<size, index, res, start_calls, body>>
    /\ UNCHANGED <<saveVars, reqVars, gwVars, viewVars>>

\* headers = [(k, v) ...]; start_response(self.status, headers)
StartResponse ==
    /\ rp_pc = "headers_built"
    /\ start_calls' = Append(start_calls,
                             [status |-> response.status, headers |-> response.headers])
    /\ events' = Append(events, "start_response")
    /\ rp_pc' = IF ~response.static THEN "prepare_rv" ELSE "file_wrapper"
    /\ UNCHANGED <<response, size, index, res, body>>
    /\ UNCHANGED <<saveVars, reqVars, gwVars, viewVars>>

\* return FileWrapper(self.rv)
ReturnFileWrapper ==
    /\ rp_pc = "file_wrapper"
    /\ body' = [mode |-> "file", fp |-> response.rv.val]
    /\ events' = Append(events, "return_file")
    /\ rp_pc' = "returned"
    /\ UNCHANGED <<response, size, index, res, start_calls>>
    /\ UNCHANGED <<saveVars, reqVars, gwVars, viewVars>>

----------------------------------------------------------------------------
(* app.py: App *)

\* bytes/str.lstrip('/')
LstripSlash(s) ==
    LET keep == {i \in DOMAIN s : s[i] # "/"}
    IN  IF keep = {} THEN <<>> ELSE SubSeq(s, SetMin(keep), Len(s))

\* is_static_requested: '.' in url.split('/')[-1]
is_static_requested_AnyDot(url) == Contains(url, <<".">>)
is_static_requested(url) ==
    LET parts == split(url, <<"/">>)
    IN  Contains(parts[Len(parts)], <<".">>)

\* open_static: the file under the statics directory, or None; files is the
\* set of relative paths that are regular files there
StaticData(rel) == <<"i", "m", "g", ":">> \o rel

open_static(path, files) ==
    LET rel == LstripSlash(path)
    IN  IF rel \in files THEN [found |-> TRUE, fp |-> StaticData(rel)]
        ELSE [found |-> FALSE, fp |-> <<>>]

\* the body the 404 handler renders
ERR_RV == [type |-> "str", val |-> <<"4", "0", "4", "!">>]

\* ensure_response_from_handler: hr is [kind |-> "str" | "bytes" | "Response" |
\* "other", val |-> what the handler returned]
ensure_response_from_handler(hr) ==
    IF hr.kind \in {"str", "bytes"} THEN Response(hr.val, FALSE, 200, "text/html")
    ELSE IF hr.kind = "Response" THEN hr.val
    ELSE NoResponse

\* build_response: [response, invoked]; invoked tells whether the handler ran
build_response(path, table, files, hr) ==
    IF is_static_requested(path)
    THEN LET f == open_static(path, files)
         IN  IF f.found
             THEN [response |-> Response([type |-> "file", val |-> f.fp], TRUE, 200,
                                         "image/jpeg"),
                   invoked |-> FALSE]
             ELSE [response |-> Response(ERR_RV, FALSE, 404, "text/html"),
                   invoked |-> FALSE]
    ELSE IF path \notin table
         THEN [response |-> Response(ERR_RV, FALSE, 404, "text/html"),
               invoked |-> FALSE]
         ELSE [response |-> ensure_response_from_handler(hr), invoked |-> TRUE]

\* App.redirect(location) and Response.set_cookie
Redirect(location) ==
    [Response([type |-> "str", val |-> <<"<", "p", ">", "R", "e", "d", "i", "r", "e", "c", "t", "i", "n", "g", "<", "/", "p", ">">>], FALSE, 302, "text/html")
        EXCEPT !.headers = <<<<"Location", location>>>>]

set_cookie(r, key, val) ==
    [r EXCEPT !.headers = DictSet(@, "Set-Cookie", key \o "=" \o val \o "; Path=/")]

\* App.respond_with_file_download for an existing file
FileDownload(name, data) ==
    [Response([type |-> "file", val |-> data], TRUE, 200, "application/octet-stream")
        EXCEPT !.headers = <<<<"Content-Disposition", "attachment; filename=" \o name>>,
                             <<"Content-Length", str(Len(data))>>>>]

----------------------------------------------------------------------------
(* Inputs of the gateway specification *)

\* handlers return text bodies of up to MaxHandlerChunks full chunks plus one unit
MaxHandlerChunks == 1

HandlerTexts == {<<>>, <<"h", "i">>} \cup {Body(k * body_chunk_size + 1, 0) : k \in 1..MaxHandlerChunks}

HandlerResults ==
    {[kind |-> "str", val |-> [type |-> "str", val |-> t]] : t \in HandlerTexts}
    \cup {[kind |-> "bytes", val |-> [type |-> "bytes", val |-> t]] : t \in {<<>>, <<"h", "i">>}}
    \cup {[kind |-> "Response", val |-> r] :
            r \in {Redirect("http://host/main"),
                   set_cookie(Redirect("http://host/main"), "session", "t0k"),
                   FileDownload("f.t", <<"d", "a", "t", "a">>)}}
    \cup {[kind |-> "other", val |-> NoResponse]}

Paths == {<<"/">>, <<"/", "m", "a", "i", "n">>, <<"/", "x">>, <<"/", "a", ".", "p", "n", "g">>, <<"/", "b", ".", "p", "n", "g">>, <<"/", "d", ".", "d", "/", "x">>, <<"/", "d", ".", "d", "/", "y", ".", "z">>}

RouteSets == {{<<"/">>, <<"/", "m", "a", "i", "n">>}, {<<"/">>, <<"/", "m", "a", "i", "n">>, <<"/", "a", ".", "p", "n", "g">>, <<"/", "b", ".", "p", "n", "g">>, <<"/", "d", ".", "d", "/", "x">>}}

StaticSets == {{}, {<<"a", ".", "p", "n", "g">>}, {<<"a", ".", "p", "n", "g">>, <<"d", ".", "d", "/", "y", ".", "z">>, <<"d", ".", "d", "/", "x">>}}

\* a plain request, one without CONTENT_LENGTH, a multipart upload, and
\* uploads whose part has no Content-Disposition or no filename
GatewayRequests ==
    {[bc |-> DefaultBody, cl |-> "empty"],
     [bc |-> DefaultBody, cl |-> "absent"],
     [bc |-> [ct |-> MultipartType(<<"X">>),
              body |-> MultipartBody(<<"X">>, DispositionWithName \o PartType, <<"k", "=", "a">>),
              extra |-> <<>>],
      cl |-> "exact"]}
    \cup {[bc |-> [ct |-> MultipartType(<<"X">>),
                   body |-> MultipartBody(<<"X">>, hs, <<"k", "=", "a">>),
                   extra |-> <<>>],
           cl |-> "exact"] : hs \in {PartType, DispositionNoName \o PartType}}

Init ==
    /\ \E p \in Paths, g \in GatewayRequests :
          /\ environ = EnvironFor(p, <<>>, g.bc, g.cl, {})
          /\ wsgi_input = [data |-> g.bc.body, pos |-> 0]
    /\ \E t \in RouteSets : _route_handlers = t
    /\ \E f \in StaticSets : static_files = f
    /\ client = DefaultQuery
    /\ request = NoRequest
    /\ GET_params = <<>>
    /\ POST_params = <<>>
    /\ rq_pc = "init"
    /\ rq_exc = [type |-> None, at |-> None]
    /\ rq_reads = <<>>
    /\ payload = <<>>
    /\ file = NoFile
    /\ sv_pc = "idle"
    /\ cur_size = 0
    /\ chunk = <<>>
    /\ dest = [exists |-> FALSE, data |-> <<>>]
    /\ reads = <<>>
    /\ writes = <<>>
    /\ exc = None
    /\ sv_rv = None
    /\ flashes = <<>>
    /\ RespIdle
    /\ gw_pc = "wsgi_call"
    /\ handler_rv = [kind |-> "none", val |-> NoResponse]
    /\ handler_calls = <<>>
    /\ err_calls = 0
    /\ ViewIdle

----------------------------------------------------------------------------
(* App.wsgi_call *)

\* cur_request = self.request_cls(environ) returned or raised
RequestConstructed ==
    /\ gw_pc = "wsgi_call"
    /\ rq_pc \in {"done", "raised"}
    /\ gw_pc' = IF rq_pc = "done" THEN "build_response" ELSE "raised"
    /\ UNCHANGED <<_route_handlers, static_files, handler_rv, handler_calls, err_calls>>
    /\ UNCHANGED <<saveVars, reqVars, respVars, viewVars>>

\* response = self.build_response(cur_request), the handler call included;
\* then response(environ, start_response) is entered
BuildResponse ==
    /\ gw_pc = "build_response"
    /\ \E hr \in HandlerResults :
          LET b == build_response(request.path_info, _route_handlers, static_files, hr)
          IN  /\ response' = b.response
              /\ handler_rv' = IF b.invoked THEN hr ELSE handler_rv
              /\ handler_calls' = IF b.invoked THEN Append(handler_calls, request.path_info)
                                  ELSE handler_calls
              /\ rp_pc' = IF b.response = NoResponse THEN "not_callable" ELSE "build_status"
    /\ err_calls' = err_calls + 1
    /\ gw_pc' = "call_response"
    /\ UNCHANGED <<_route_handlers, static_files>>
    /\ UNCHANGED <<size, index, res, events, start_calls, body>>
    /\ UNCHANGED <<saveVars, reqVars, viewVars>>

Next ==
    \/ ReqInitFields
    \/ ReqParseFiles
    \/ ReqParseGetPost
    \/ RequestConstructed
    \/ BuildResponse
    \/ BuildStatus
    \/ BuildHeaders
    \/ StartResponse
    \/ PrepareRvBegin
    \/ PrepareRvStep
    \/ PrepareRvReturn
    \/ ReturnFileWrapper

Spec == Init /\ [][Next]_vars

\* the last '/'-separated segment of the path contains a '.'
LastSegmentHasDot(path) ==
    \E i \in DOMAIN path :
        /\ path[i] = "."
        /\ \A j \in DOMAIN path : j > i => path[j] # "/"

\* the asset file the path names exists under the statics directory
AssetExists(path) == \E f \in static_files : path = <<"/">> \o f

\* the response is the 404 response carrying the not-found handler's output
IsNotFound ==
    /\ response # NoResponse
    /\ response.status_no = 404
    /\ response.rv = ERR_RV
    /\ ~response.static

\* the response is what the invoked handler returned, normalised
IsHandlerResult ==
    /\ handler_calls = <<request.path_info>>
    /\ handler_rv.kind \in {"str", "bytes"} =>
          /\ response # NoResponse
          /\ response.rv = handler_rv.val
          /\ response.status_no = 200
          /\ ~response.static
    /\ handler_rv.kind = "Response" =>
          /\ response # NoResponse
          /\ response.rv = handler_rv.val.rv
          /\ response.status_no = handler_rv.val.status_no
          /\ response.static = handler_rv.val.static
          /\ response.mimetype = handler_rv.val.mimetype
    /\ handler_rv.kind = "other" => response = NoResponse

\* C4 as stated: build_response produces the 404 response exactly when the path
\* is absent from the routing table or is a static asset request whose file
\* does not exist; in every other case the handler registered for the path is
\* invoked and its result is the response.
C4_AsStated ==
    gw_pc = "call_response" =>
        LET path == request.path_info
            notFound == \/ path \notin _route_handlers
                        \/ (LastSegmentHasDot(path) /\ ~AssetExists(path))
        IN  /\ IsNotFound <=> notFound
            /\ ~notFound => IsHandlerResult

\* C4 (amended): build_response produces the 404 response exactly when the path
\* is a static asset request whose file does not exist, or is not a static
\* asset request and is absent from the routing table; a static asset request
\* whose file exists yields the static 200 response carrying that file and no
\* handler is invoked, registered or not; in every other case the registered
\* handler is invoked once and its normalised result is the response.  The 404
\* handler is called once in every case.
C4_Dispatch ==
    gw_pc = "call_response" =>
        LET path == request.path_info
            dot  == LastSegmentHasDot(path)
            have == AssetExists(path)
        IN  /\ IsNotFound <=> ((dot /\ ~have) \/ (~dot /\ path \notin _route_handlers))
            /\ (IsNotFound \/ dot) => handler_calls = <<>>
            /\ (dot /\ have) =>
                  /\ response # NoResponse
                  /\ response.static
                  /\ response.status_no = 200
                  /\ response.mimetype = "image/jpeg"
                  /\ response.rv = [type |-> "file",
                                    val |-> StaticData(SubSeq(path, 2, Len(path)))]
            /\ (~dot /\ path \in _route_handlers) => IsHandlerResult
            /\ err_calls = 1

\* a static asset is served for a path that also has a registered handler:
\* the handler is not invoked
C4_Witness ==
    /\ gw_pc = "call_response"
    /\ request.path_info \in _route_handlers
    /\ LastSegmentHasDot(request.path_info)
    /\ response # NoResponse
    /\ response.static
    /\ handler_calls = <<>>

\* the bytes of a raw handler result
RawBytes(hr) == IF hr.kind = "str" THEN encode(hr.val.val) ELSE hr.val.val

\* C5: for a handler that returns raw text or raw bytes the gateway call wraps
\* it as a status-200 response, calls start_response with "200 OK" and returns
\* byte chunks whose concatenation is the handler's body; a pre-built Response
\* is emitted as it is (status code, headers, body unchanged).
C5_RawAndPrebuilt ==
    /\ handler_rv.kind \in {"str", "bytes"} =>
          /\ response.status_no = 200
          /\ rp_pc # "raised"
          /\ start_calls # <<>> => start_calls[1].status = "200 OK"
          /\ rp_pc = "returned" =>
                /\ body.mode = "chunks"
                /\ Concat(body.chunks) = RawBytes(handler_rv)
    /\ handler_rv.kind = "Response" =>
          /\ response.status_no = handler_rv.val.status_no
          /\ response.rv = handler_rv.val.rv
          /\ \A i \in DOMAIN handler_rv.val.headers :
                \E j \in DOMAIN response.headers :
                    response.headers[j] = handler_rv.val.headers[i]

\* the steps of Response.__call__ for the response, in order
EmissionSteps ==
    <<"build_status", "build_headers", "start_response",
      IF response.static THEN "return_file" ELSE "return_chunks">>

\* C10: in every gateway call that constructs a response the events come in
\* the order: status line derived from status_no, Content-Type written into
\* the header map, start_response called exactly once with that status line and
\* the finalized header pairs, body returned.  The headers the handler set are
\* among the pairs passed to start_response, and the body is the chunk list
\* when static is false and the file wrapper when static is true, never both.
C10_EmissionOrder ==
    (gw_pc = "call_response" /\ response # NoResponse) =>
        LET n == Len(events)
        IN  /\ n <= 4
            /\ events = SubSeq(EmissionSteps, 1, n)
            /\ Len(start_calls) = IF n >= 3 THEN 1 ELSE 0
            /\ n >= 1 => response.status =
                            ToString(response.status_no) \o ClassMessage(response.status_no)
            /\ n >= 2 => "Content-Type" \in DictKeys(response.headers)
            /\ n >= 3 =>
                  /\ start_calls[1] = [status |-> response.status,
                                       headers |-> response.headers]
                  /\ handler_rv.kind = "Response" =>
                        \A i \in DOMAIN handler_rv.val.headers :
                            \E j \in DOMAIN start_calls[1].headers :
                                start_calls[1].headers[j] = handler_rv.val.headers[i]
            /\ body.mode # "none" <=> n = 4
            /\ rp_pc = "returned" <=> n = 4
            /\ body.mode = "chunks" => (~response.static /\ body.chunks = res)
            /\ body.mode = "file" => (response.static /\ body.fp = response.rv.val)
            /\ rp_pc = "raised" => n = 3

\* a file download was emitted: Content-Disposition and Content-Length set by
\* the handler reached start_response, and the body is the file wrapper
C10_Witness ==
    /\ gw_pc = "call_response"
    /\ rp_pc = "returned"
    /\ handler_rv.kind = "Response"
    /\ response.static
    /\ body.mode = "file"
    /\ Len(start_calls) = 1
    /\ {"Content-Disposition", "Content-Length", "Content-Type"}
          \subseteq DictKeys(start_calls[1].headers)

----------------------------------------------------------------------------
(* Claims about the part-header scan of parse_files *)

\* the byte lengths of the lines parse_files read, in order
HeaderLineLens ==
    LET rs == SelectSeq(rq_reads, LAMBDA r : r.by = "parse_files")
    IN  [i \in DOMAIN rs |-> rs[i].got]

\* the bytes of the i-th line parse_files read, taken from the stream
HeaderLine(i) ==
    LET before == SumSeq(SubSeq(HeaderLineLens, 1, i - 1))
    IN  SubSeq(wsgi_input.data, before + 1, before + HeaderLineLens[i])

\* C11: after parse_files handled a multipart body, the file's body_size is
\* int(CONTENT_LENGTH) minus the total byte length, terminators included, of
\* every line read up to and including the blank line, and the stream cursor
\* sits at the first byte after that blank line; so body_size is the number of
\* declared body bytes not yet read.
C11_BodySize ==
    (rq_pc \in {"parse_get_post", "done"} /\ file # NoFile) =>
        LET n     == Len(HeaderLineLens)
            total == SumSeq(HeaderLineLens)
            cl    == int(environ["CONTENT_LENGTH"])
        IN  /\ n >= 1
            /\ file.body_size = cl - total
            /\ wsgi_input.pos = total
            /\ strip(HeaderLine(n)) = <<>>
            /\ \A i \in 1..(n - 1) : strip(HeaderLine(i)) # <<>>
            /\ file.body_size = cl - wsgi_input.pos

\* a header block of several lines, one of them ended by a bare LF, was
\* scanned and the part body is still unread
C11_Witness ==
    /\ rq_pc = "done"
    /\ file # NoFile
    /\ Len(HeaderLineLens) >= 4
    /\ \E i \in DOMAIN HeaderLineLens :
          /\ HeaderLineLens[i] >= 2
          /\ HeaderLine(i)[HeaderLineLens[i] - 1] # "CR"
    /\ file.body_size > 0
    /\ file.body_size = Len(wsgi_input.data) - wsgi_input.pos

----------------------------------------------------------------------------
(* Claims about the chunked read of save_to_file *)

\* the read sizes requested so far are whole chunks, but for a last one that
\* may be shorter, and stay within the declared span
ReadsWithinSpan ==
    /\ \A i \in DOMAIN reads :
          IF i < Len(reads) THEN reads[i] = read_chunk_size
          ELSE reads[i] >= 1 /\ reads[i] <= read_chunk_size
    /\ SumSeq(reads) <= file.body_size
    /\ wsgi_input.pos <= file.body_size

\* C12: save_to_file reads the span in requests of exactly 4096 bytes followed
\* by at most one shorter final request, the sizes summing to the declared
\* span and never exceeding it; each chunk is written before the next read;
\* and when it has returned True the closing marker was stripped exactly once,
\* from the final chunk only: every earlier chunk was written whole, the final
\* one without the marker, and the saved file has the payload's size.
C12_ChunkedRead ==
    sv_pc \notin {"idle", "upload"} =>
        /\ ReadsWithinSpan
        /\ Len(reads) - Len(writes) \in {0, 1}
        /\ sv_pc = "loop" => Len(reads) = Len(writes)
        /\ (sv_pc \in {"returned", "done"} /\ sv_rv = "True") =>
              LET k == Len(writes)
              IN  /\ SumSeq(reads) = file.body_size
                  /\ k = Len(reads)
                  /\ \A i \in 1..(k - 1) : writes[i] = reads[i]
                  /\ k >= 1 =>
                        writes[k] = reads[k] - Len(tail(file.binary_file_bound))
                  /\ Len(dest.data) = Len(payload)

\* the i-th line parse_files read, decoded and stripped
DecodedLine(i) == strip(HeaderLine(i))

\* file_bound = content_type.split('=')[1]
FileBound == split(environ["CONTENT_TYPE"], <<"=">>)[2]

DispositionKey == <<"C", "o", "n", "t", "e", "n", "t", "-", "D", "i", "s", "p", "o", "s", "i", "t", "i", "o", "n">>

\* the lines read before the last that do not contain the boundary token
ParsedLines ==
    {i \in 1..(Len(HeaderLineLens) - 1) : ~Contains(DecodedLine(i), FileBound)}

\* those of them whose name is Content-Disposition
DispositionLines ==
    {i \in ParsedLines : split(DecodedLine(i), <<":", " ">>)[1] = DispositionKey}

\* parse_files has scanned part-header lines
HeadersScanned == HeaderLineLens # <<>> /\ rq_exc.at # "parse_get_post"

----------------------------------------------------------------------------
(* Claims about multipart requests at the gateway *)

FilenameKey == <<"f", "i", "l", "e", "n", "a", "m", "e", "=">> \o <<"DQ">>

\* C14: a request declared multipart/form-data whose part header block has no
\* Content-Disposition header fails Request construction: no Request is
\* returned to wsgi_call, no handler (not even the not-found handler) is
\* invoked and start_response is never called; when Content-Disposition is
\* present without a filename="..." the construction succeeds and the file
\* name is 'unknown_file'.
C14_MissingDisposition ==
    (IsMultipart(environ) /\ rq_pc \notin {"init", "parse_files"}) =>
        /\ ~Contains(wsgi_input.data, DispositionKey) =>
              /\ rq_pc = "raised"
              /\ rq_exc.at = "parse_files"
              /\ file = NoFile
              /\ gw_pc \in {"wsgi_call", "raised"}
              /\ response = NoResponse
              /\ handler_calls = <<>>
              /\ err_calls = 0
              /\ start_calls = <<>>
              /\ events = <<>>
              /\ body.mode = "none"
        /\ (Contains(wsgi_input.data, DispositionKey \o <<":", " ">>)
              /\ ~Contains(wsgi_input.data, FilenameKey)) =>
              /\ rq_pc \in {"parse_get_post", "done"}
              /\ gw_pc # "raised"
              /\ file # NoFile
              /\ file.name = <<"u", "n", "k", "n", "o", "w", "n", "_", "f", "i", "l", "e">>

\* the gateway call ended with the KeyError of a multipart request without
\* Content-Disposition
C14_Witness ==
    /\ IsMultipart(environ)
    /\ ~Contains(wsgi_input.data, DispositionKey)
    /\ gw_pc = "raised"
    /\ rq_exc = [type |-> "KeyError", at |-> "parse_files"]
    /\ start_calls = <<>>

----------------------------------------------------------------------------
(* views.py, util.py, db.py: the views and the state they share *)

\* the views serve up to MaxRequests requests, one after the other
MaxRequests == 3

\* the Python string of a sequence of characters
RECURSIVE Str(_)
Str(s) == IF s = <<>> THEN "" ELSE s[1] \o Str(SubSeq(s, 2, Len(s)))

\* str.strip('/')
StripSlash(s) ==
    LET keep == {i \in DOMAIN s : s[i] # "/"}
    IN  IF keep = {} THEN <<>> ELSE SubSeq(s, SetMin(keep), SetMax(keep))

\* os.path.join(a, b)
join(a, b) ==
    IF b # <<>> /\ b[1] = "/" THEN b
    ELSE IF a = <<>> \/ a[Len(a)] = "/" THEN a \o b
    ELSE a \o <<"/">> \o b

\* the directory entry a path names: its non-empty segments, after a root
\* marker when the path is absolute
Node(p) ==
    (IF p # <<>> /\ p[1] = "/" THEN <<"ROOT">> ELSE <<>>)
    \o SelectSeq(split(p, <<"/">>), LAMBDA x : x # <<>>)

Parent(n) == SubSeq(n, 1, Len(n) - 1)

\* os.mkdir, os.rmdir, os.remove on the directories ds and regular files fs:
\* [ok, dirs, files], ok = FALSE when the call raises
os_mkdir(n, ds, fs) ==
    IF n # <<>> /\ n \notin ds \cup fs /\ Parent(n) \in ds
    THEN [ok |-> TRUE, dirs |-> ds \cup {n}, files |-> fs]
    ELSE [ok |-> FALSE, dirs |-> ds, files |-> fs]

os_rmdir(n, ds, fs) ==
    IF n # <<>> /\ n \in ds /\ ~\E c \in ds \cup fs : c # <<>> /\ Parent(c) = n
    THEN [ok |-> TRUE, dirs |-> ds \ {n}, files |-> fs]
    ELSE [ok |-> FALSE, dirs |-> ds, files |-> fs]

os_remove(n, ds, fs) ==
    IF n \in fs
    THEN [ok |-> TRUE, dirs |-> ds, files |-> fs \ {n}]
    ELSE [ok |-> FALSE, dirs |-> ds, files |-> fs]

os_call(method, n, ds, fs) ==
    IF method = "mkdir" THEN os_mkdir(n, ds, fs)
    ELSE IF method = "rmdir" THEN os_rmdir(n, ds, fs)
    ELSE os_remove(n, ds, fs)

\* os.makedirs(p, exist_ok=True)
os_makedirs(n, ds, fs) ==
    IF \E k \in 1..Len(n) : SubSeq(n, 1, k) \in fs
    THEN [ok |-> FALSE, dirs |-> ds, files |-> fs]
    ELSE [ok |-> TRUE, dirs |-> ds \cup {SubSeq(n, 1, k) : k \in 0..Len(n)}, files |-> fs]

\* conf.get('SERVER_DIR')
SERVER_DIR == <<"s">>

\* util.py Client
Client(u_name, cwd) == [u_name |-> u_name, cwd |-> cwd]

real_cwd(c) == join(join(SERVER_DIR, c.u_name), StripSlash(c.cwd))

\* Client.get_dir_view: DirView(os.path.join(server_dir, u_name), cwd) walks
\* os.path.join(that, cwd.strip('/')) and raises unless it is a directory
DirViewPath(c) == join(join(SERVER_DIR, c.u_name), StripSlash(c.cwd))

\* app.url_for(request, location) with the request's HTTP_HOST
url_for(host, location) == "http://" \o host \o "/" \o Str(StripSlash(location))

\* derive_token(): sha256 of 64 random bits, taken as a value never derived
\* before; n counts the tokens derived so far
derive_token(n) == "t" \o ToString(n + 1)

\* sha512(u_pass.encode()).hexdigest()
sha512(u_pass) == <<"sha512:">> \o u_pass

\* extract_credentials_from_post_req
extract_credentials_from_post_req(req) ==
    IF req.post /\ req.login # <<>> /\ req.password # <<>>
    THEN [u_name |-> req.login, u_pass_hash |-> sha512(req.password)]
    ELSE [u_name |-> <<>>, u_pass_hash |-> <<>>]

\* db.py: u is the USERS table as login -> pass_hash
try_login(u, u_name, pass_hash) == u_name \in DOMAIN u /\ u[u_name] = pass_hash

try_register(u, u_name) == u_name \notin DOMAIN u

\* FlashManager.__exit__ without the clear
clear_flashes_Keeps(fl) == fl
\* Flash.clear_flashes: cls._flashes.clear()
clear_flashes(fl) == <<>>

\* a check that takes any session cookie for a login
LoggedIn_AnyToken(cookie, sess) == cookie.header /\ cookie.session # None
\* cookie and session_token and session_token.value in self.sessions
LoggedIn(cookie, sess) ==
    cookie.header /\ cookie.session # None /\ cookie.session \in sess

\* a logout that removes the cookie object, which is never a member
logout_RemovesMorsel(cookie, action, sess) == sess
\* MainView.__call__ before the with block: the sessions after it
logout(cookie, action, sess) ==
    IF LoggedIn(cookie, sess) /\ action = "logout" THEN sess \ {cookie.session} ELSE sess

\* an on_auth that does not record the client
on_auth_NoClient(sess, cu, n, host, u_name) ==
    LET tok == derive_token(n)
    IN  [sessions |-> sess \cup {tok},
         current_users |-> cu,
         response |-> set_cookie(Redirect(url_for(host, <<"/", "m", "a", "i", "n">>)), "session", tok)]
\* AuthProxyView.on_auth: the sessions, the clients and the response after it
on_auth(sess, cu, n, host, u_name) ==
    LET tok == derive_token(n)
    IN  [sessions |-> sess \cup {tok},
         current_users |-> [t \in DOMAIN cu \cup {tok} |->
                               IF t = tok THEN Client(u_name, <<"/">>) ELSE cu[t]],
         response |-> set_cookie(Redirect(url_for(host, <<"/", "m", "a", "i", "n">>)), "session", tok)]

\* MainView._handle_file_system_action(path, client, method, flash_manager,
\* default_msg, except_msg): [ok, dirs, files, flash, path]
_handle_file_system_action(path, c, method, default_msg, except_msg, ds, fs) ==
    LET item_path == join(join(SERVER_DIR, c.u_name), StripSlash(path))
        r == os_call(method, Node(item_path), ds, fs)
    IN  [ok |-> r.ok, dirs |-> r.dirs, files |-> r.files, path |-> item_path,
         flash |-> IF r.ok THEN Flash(default_msg, 1) ELSE Flash(except_msg, 2)]

\* MainView.handle_make_dir
handle_make_dir(pseudo_dir_name, c, ds, fs) ==
    LET dir_name == join(StripSlash(real_cwd(c)), StripSlash(pseudo_dir_name))
    IN  _handle_file_system_action(dir_name, c, "mkdir",
            "No such file or directory: " \o Str(pseudo_dir_name),
            "Created directory: " \o Str(pseudo_dir_name), ds, fs)

\* MainView.handle_remove for the two actions it knows
handle_remove(requested_path, action, c, ds, fs) ==
    IF action = "remove_dir"
    THEN _handle_file_system_action(requested_path, c, "rmdir",
            "Directory " \o Str(requested_path) \o " was removed",
            "Directory " \o Str(requested_path) \o " is non-empty", ds, fs)
    ELSE _handle_file_system_action(requested_path, c, "remove",
            "File was removed successfully",
            "Error occurred after an attempt to remove specified file", ds, fs)

\* main.py handle_make_dir: [ok, dirs, files, flash, path]
main_handle_make_dir(pseudo_dir_name, c, ds, fs) ==
    LET dir_name == join(StripSlash(real_cwd(c)), StripSlash(pseudo_dir_name))
        r == os_mkdir(Node(dir_name), ds, fs)
    IN  [ok |-> r.ok, dirs |-> r.dirs, files |-> r.files, path |-> dir_name,
         flash |-> IF r.ok
                   THEN Flash("Created directory: " \o Str(pseudo_dir_name), 1)
                   ELSE Flash("No such file or directory: " \o Str(pseudo_dir_name), 2)]

----------------------------------------------------------------------------
(* Inputs of the views specification *)

Host == "host"

Names == {<<"u">>, <<"v">>}

Passwords == {<<"p">>, <<"q">>}

\* the session values a client may send: every token the run can derive and
\* one that is never derived
Tokens == {derive_token(i) : i \in 0..(MaxRequests - 1)} \cup {"bogus"}

\* HTTP_COOKIE: no header, a header without 'session', a header with it
Cookies ==
    {[header |-> FALSE, session |-> None], [header |-> TRUE, session |-> None]}
    \cup {[header |-> TRUE, session |-> t] : t \in Tokens}

NoCookie == [header |-> FALSE, session |-> None]

\* POST bodies of the login and register forms
AuthRequests(view) ==
    {[view |-> view, cookie |-> NoCookie, action |-> None, path |-> <<>>,
      dir_name_create |-> <<>>, post |-> FALSE, login |-> <<>>, password |-> <<>>,
      upload |-> FALSE]}
    \cup {[view |-> view, cookie |-> NoCookie, action |-> None, path |-> <<>>,
           dir_name_create |-> <<>>, post |-> TRUE, login |-> c[1], password |-> c[2],
           upload |-> FALSE] :
            c \in {<<<<"u">>, <<"p">>>>, <<<<"u">>, <<"q">>>>, <<<<"v">>, <<"p">>>>, <<<<>>, <<"p">>>>}}

\* /main requests: cookie, action and path of the query string, and a body
\* that is empty, the make-directory form or an upload
MainRequests ==
    {[view |-> "main", cookie |-> c, action |-> a, path |-> p,
      dir_name_create |-> b.dir, post |-> b.dir # <<>>, login |-> <<>>,
      password |-> <<>>, upload |-> b.upload] :
        c \in Cookies, a \in {None, "logout", "remove_dir", "remove_file"},
        p \in {<<>>, <<"/", "f", ".", "t">>, <<"/", "d">>},
        b \in {[dir |-> <<>>, upload |-> FALSE], [dir |-> <<"d">>, upload |-> FALSE],
               [dir |-> <<>>, upload |-> TRUE]}}

ViewRequests == AuthRequests("login") \cup AuthRequests("register") \cup MainRequests

UploadPayload == <<"a", "b">>

\* the file parse_files leaves for an upload of UploadPayload with boundary X
UploadFile ==
    [binary_file_bound |-> <<"X">>,
     body_size |-> Len(UploadPayload) + Len(tail(<<"X">>)),
     name |-> <<"f", ".", "t">>]

NoRv == [kind |-> "none"]

\* AppData.__init__ on an empty database and server directory
ViewInit ==
    /\ sessions = {}
    /\ current_users = <<>>
    /\ users = <<>>
    /\ dirs = {<<>>, Node(SERVER_DIR)}
    /\ fsfiles = {}
    /\ vw_pc = "idle"
    /\ vw_req = [view |-> "none"]
    /\ vw_rv = NoRv
    /\ act_log = <<>>
    /\ stale = <<>>
    /\ n_derived = 0
    /\ n_req = 0
    /\ revoked = {}
    /\ issued = <<>>
    /\ SaveIdle
    /\ RespIdle
    /\ ReqIdle
    /\ GwIdle

----------------------------------------------------------------------------
(* The views *)

\* the gateway hands a request to its view
ViewRequest ==
    /\ vw_pc \in {"idle", "returned"}
    /\ n_req < MaxRequests
    /\ \E r \in ViewRequests :
          /\ vw_req' = r
          /\ vw_pc' = r.view
          /\ IF r.upload
             THEN /\ file' = UploadFile
                  /\ payload' = UploadPayload
                  /\ wsgi_input' = [data |-> UploadPayload \o tail(<<"X">>), pos |-> 0]
             ELSE /\ file' = NoFile
                  /\ payload' = <<>>
                  /\ wsgi_input' = [data |-> <<>>, pos |-> 0]
    /\ sv_pc' = "idle"
    /\ cur_size' = 0
    /\ chunk' = <<>>
    /\ dest' = [exists |-> FALSE, data |-> <<>>]
    /\ reads' = <<>>
    /\ writes' = <<>>
    /\ exc' = None
    /\ sv_rv' = None
    /\ vw_rv' = NoRv
    /\ act_log' = <<>>
    /\ stale' = flashes
    /\ n_req' = n_req + 1
    /\ UNCHANGED <<flashes, sessions, current_users, users, dirs, fsfiles, n_derived,
                   revoked, issued>>
    /\ UNCHANGED <<respVars, reqVars, gwVars>>

\* render_template(name, flash_messages=f_mng.get_flashes())
Render(template, fl) == [kind |-> "render", template |-> template, flash_messages |-> fl]

\* LoginView.__call__ inside the with block
LoginCall ==
    /\ vw_pc = "login"
    /\ LET cr == extract_credentials_from_post_req(vw_req)
       IN  IF vw_req.post /\ try_login(users, cr.u_name, cr.u_pass_hash)
           THEN LET a == on_auth(sessions, current_users, n_derived, Host, cr.u_name)
                IN  /\ sessions' = a.sessions
                    /\ current_users' = a.current_users
                    /\ n_derived' = n_derived + 1
                    /\ issued' = [t \in DOMAIN issued \cup {derive_token(n_derived)} |->
                                    IF t = derive_token(n_derived) THEN cr.u_name
                                    ELSE issued[t]]
                    /\ vw_rv' = [kind |-> "Response", val |-> a.response]
                    /\ UNCHANGED flashes
           ELSE /\ flashes' = IF vw_req.post
                              THEN Append(flashes,
                                          Flash("Incorrect username and/or password", 2))
                              ELSE flashes
                /\ vw_rv' = Render("login.html", flashes')
                /\ UNCHANGED <<sessions, current_users, n_derived, issued>>
    /\ vw_pc' = "exit"
    /\ UNCHANGED <<users, dirs, fsfiles, vw_req, act_log, stale, n_req, revoked>>
    /\ UNCHANGED <<wsgi_input, file, sv_pc, cur_size, chunk, dest, reads, writes, exc,
                   sv_rv, payload>>
    /\ UNCHANGED <<respVars, reqVars, gwVars>>

\* RegisterView.__call__ inside the with block
RegisterCall ==
    /\ vw_pc = "register"
    /\ LET cr == extract_credentials_from_post_req(vw_req)
           md == os_makedirs(Node(join(SERVER_DIR, cr.u_name)), dirs, fsfiles)
       IN  IF vw_req.post /\ cr.u_name # <<>> /\ cr.u_pass_hash # <<>>
              /\ try_register(users, cr.u_name)
           THEN /\ users' = [n \in DOMAIN users \cup {cr.u_name} |->
                                IF n = cr.u_name THEN cr.u_pass_hash ELSE users[n]]
                /\ dirs' = md.dirs
                /\ IF md.ok
                   THEN LET a == on_auth(sessions, current_users, n_derived, Host,
                                         cr.u_name)
                        IN  /\ sessions' = a.sessions
                            /\ current_users' = a.current_users
                            /\ n_derived' = n_derived + 1
                            /\ issued' = [t \in DOMAIN issued \cup {derive_token(n_derived)} |->
                                            IF t = derive_token(n_derived) THEN cr.u_name
                                            ELSE issued[t]]
                            /\ vw_rv' = [kind |-> "Response", val |-> a.response]
                   ELSE /\ vw_rv' = [kind |-> "raised", exc |-> "FileExistsError"]
                        /\ UNCHANGED <<sessions, current_users, n_derived, issued>>
                /\ UNCHANGED flashes
           ELSE /\ flashes' =
                      IF ~vw_req.post THEN flashes
                      ELSE IF cr.u_name = <<>> \/ cr.u_pass_hash = <<>>
                      THEN Append(flashes,
                                  Flash("Username and/or password not specified", 2))
                      ELSE Append(flashes, Flash("Username taken", 2))
                /\ vw_rv' = Render("register.html", flashes')
                /\ UNCHANGED <<users, dirs, sessions, current_users, n_derived, issued>>
    /\ vw_pc' = "exit"
    /\ UNCHANGED <<fsfiles, vw_req, act_log, stale, n_req, revoked>>
    /\ UNCHANGED <<wsgi_input, file, sv_pc, cur_size, chunk, dest, reads, writes, exc,
                   sv_rv, payload>>
    /\ UNCHANGED <<respVars, reqVars, gwVars>>

\* MainView.__call__ up to the with block: the logout
MainLogout ==
    /\ vw_pc = "main"
    /\ sessions' = logout(vw_req.cookie, vw_req.action, sessions)
    /\ revoked' = revoked \cup (sessions \ sessions')
    /\ vw_pc' = "main_with"
    /\ UNCHANGED <<current_users, users, dirs, fsfiles, vw_req, vw_rv, act_log, stale,
                   n_derived, n_req, issued>>
    /\ UNCHANGED saveVars
    /\ UNCHANGED <<respVars, reqVars, gwVars>>

Act(op, path, ok) == [op |-> op, path |-> path, ok |-> ok]

\* MainView.__call__: the session check and the branch taken on it
MainBranch ==
    /\ vw_pc = "main_with"
    /\ LET r   == vw_req
           tok == r.cookie.session
       IN  IF ~LoggedIn(r.cookie, sessions)
           THEN /\ vw_rv' = [kind |-> "Response", val |-> Redirect(url_for(Host, <<"/">>))]
                /\ vw_pc' = "exit"
                /\ UNCHANGED <<current_users, dirs, fsfiles, act_log, flashes, sv_pc>>
           ELSE IF tok \notin DOMAIN current_users
           THEN /\ vw_rv' = [kind |-> "raised", exc |-> "KeyError"]
                /\ vw_pc' = "exit"
                /\ UNCHANGED <<current_users, dirs, fsfiles, act_log, flashes, sv_pc>>
           ELSE LET c == current_users[tok]
                IN  IF r.path # <<>> /\ r.action # None
                    THEN LET h == handle_remove(r.path, r.action, c, dirs, fsfiles)
                         IN  /\ IF r.action \in {"remove_dir", "remove_file"}
                                THEN /\ dirs' = h.dirs
                                     /\ fsfiles' = h.files
                                     /\ flashes' = Append(flashes, h.flash)
                                     /\ act_log' = Append(act_log,
                                                          Act(r.action, h.path, h.ok))
                                ELSE UNCHANGED <<dirs, fsfiles, flashes, act_log>>
                             /\ vw_pc' = "main_render"
                             /\ UNCHANGED <<current_users, vw_rv, sv_pc>>
                    ELSE IF r.dir_name_create # <<>>
                    THEN LET h == handle_make_dir(r.dir_name_create, c, dirs, fsfiles)
                         IN  /\ dirs' = h.dirs
                             /\ fsfiles' = h.files
                             /\ flashes' = Append(flashes, h.flash)
                             /\ act_log' = Append(act_log, Act("make_dir", h.path, h.ok))
                             /\ vw_pc' = "main_render"
                             /\ UNCHANGED <<current_users, vw_rv, sv_pc>>
                    ELSE IF file # NoFile
                    THEN /\ sv_pc' = "upload"
                         /\ vw_pc' = "main_upload"
                         /\ UNCHANGED <<current_users, dirs, fsfiles, act_log, flashes,
                                        vw_rv>>
                    ELSE IF r.path # <<>>
                    THEN LET p == join(join(SERVER_DIR, c.u_name), StripSlash(r.path))
                         IN  IF Node(p) \in fsfiles
                             THEN /\ vw_rv' = [kind |-> "download", path |-> p]
                                  /\ act_log' = Append(act_log, Act("download", p, TRUE))
                                  /\ vw_pc' = "exit"
                                  /\ UNCHANGED <<current_users, dirs, fsfiles, flashes,
                                                 sv_pc>>
                             ELSE /\ current_users' =
                                        [current_users EXCEPT ![tok].cwd = r.path]
                                  /\ act_log' = Append(act_log, Act("chdir", r.path, TRUE))
                                  /\ vw_pc' = "main_render"
                                  /\ UNCHANGED <<dirs, fsfiles, flashes, vw_rv, sv_pc>>
                    ELSE /\ vw_pc' = "main_render"
                         /\ UNCHANGED <<current_users, dirs, fsfiles, act_log, flashes,
                                        vw_rv, sv_pc>>
    /\ UNCHANGED <<sessions, users, vw_req, stale, n_derived, n_req, revoked, issued>>
    /\ UNCHANGED <<wsgi_input, file, cur_size, chunk, dest, reads, writes, exc, sv_rv,
                   payload>>
    /\ UNCHANGED <<respVars, reqVars, gwVars>>

\* handle_upload_file has returned: the file save_to_file opened is on disk
MainUploaded ==
    /\ vw_pc = "main_upload"
    /\ sv_pc = "done"
    /\ LET c == current_users[vw_req.cookie.session]
           new_file_path == join(StripSlash(real_cwd(c)), file.name)
       IN  /\ fsfiles' = IF dest.exists THEN fsfiles \cup {Node(new_file_path)}
                         ELSE fsfiles
           /\ act_log' = IF sv_rv # None
                         THEN Append(act_log, Act("save", new_file_path, sv_rv = "True"))
                         ELSE act_log
    /\ vw_pc' = "main_render"
    /\ UNCHANGED <<sessions, current_users, users, dirs, vw_req, vw_rv, stale, n_derived,
                   n_req, revoked, issued>>
    /\ UNCHANGED saveVars
    /\ UNCHANGED <<respVars, reqVars, gwVars>>

\* dir_view = cur_client.get_dir_view(); return render_template('main.html', ...)
MainRender ==
    /\ vw_pc = "main_render"
    /\ LET c == current_users[vw_req.cookie.session]
       IN  IF Node(DirViewPath(c)) \in dirs
           THEN /\ vw_rv' = Render("main.html", flashes)
                /\ act_log' = Append(act_log, Act("dir_view", DirViewPath(c), TRUE))
           ELSE /\ vw_rv' = [kind |-> "raised", exc |-> "StopIteration"]
                /\ UNCHANGED act_log
    /\ vw_pc' = "exit"
    /\ UNCHANGED <<sessions, current_users, users, dirs, fsfiles, vw_req, stale,
                   n_derived, n_req, revoked, issued>>
    /\ UNCHANGED saveVars
    /\ UNCHANGED <<respVars, reqVars, gwVars>>

\* FlashManager.__exit__, on return and on an exception alike
ViewExit ==
    /\ vw_pc = "exit"
    /\ flashes' = clear_flashes(flashes)
    /\ vw_pc' = "returned"
    /\ UNCHANGED <<sessions, current_users, users, dirs, fsfiles, vw_req, vw_rv, act_log,
                   stale, n_derived, n_req, revoked, issued>>
    /\ UNCHANGED <<wsgi_input, file, sv_pc, cur_size, chunk, dest, reads, writes, exc,
                   sv_rv, payload>>
    /\ UNCHANGED <<respVars, reqVars, gwVars>>

ViewNext ==
    \/ ViewRequest
    \/ LoginCall
    \/ RegisterCall
    \/ MainLogout
    \/ MainBranch
    \/ UploadBegin
    \/ SaveOpen
    \/ SaveRead
    \/ SaveWrite
    \/ SaveReturnTrue
    \/ SaveReturnFalse
    \/ UploadEnd
    \/ MainUploaded
    \/ MainRender
    \/ ViewExit

SpecViews == ViewInit /\ [][ViewNext]_vars

----------------------------------------------------------------------------
(* Claims about the views *)

\* the redirect to '/' MainView returns outside the logged-in branch
RedirectHome == [kind |-> "Response", val |-> Redirect(url_for(Host, <<"/">>))]

\* C15: flash messages live for one request only.  Whenever no view call is
\* running, after a return and after a raise alike, the process-wide Flash
\* list is empty; every request therefore finds it empty, and the messages a
\* view renders are the list as it stands at the render, which holds only
\* messages flashed during that same request.
C15_FlashLifetime ==
    /\ vw_pc \in {"idle", "returned"} => flashes = <<>>
    /\ stale = <<>>
    /\ (vw_pc = "exit" /\ vw_rv.kind = "render") => vw_rv.flash_messages = flashes
    /\ (vw_pc = "returned" /\ vw_rv.kind = "render") =>
          \A i \in DOMAIN vw_rv.flash_messages :
              vw_rv.flash_messages[i].level \in {1, 2}

\* a request that follows one whose view flashed a message rendered its own
\* message only, and the list is empty again
C15_Witness ==
    /\ vw_pc = "returned"
    /\ n_req >= 3
    /\ vw_req.view = "main"
    /\ vw_rv.kind = "render"
    /\ Len(vw_rv.flash_messages) = 1
    /\ vw_rv.flash_messages[1].msg = "Uploaded file successfully"
    /\ flashes = <<>>

\* the request's session cookie value is in sessions
ValidSession == 
    /\ vw_req.cookie.header
    /\ vw_req.cookie.session # None
    /\ vw_req.cookie.session \in sessions

\* C16: a step of MainView after its logout part changes the disk, the
\* client's cwd or the upload's destination, starts save_to_file, or returns
\* the directory view or a download, only when the request's session cookie
\* value is in sessions at that moment; with no cookie, no session cookie or a
\* token not in sessions the check changes none of these and the result is the
\* redirect to '/'.
C16_SessionGuard ==
    [][(vw_req.view = "main" /\ vw_pc \in {"main_with", "main_upload", "main_render"}) =>
          /\ (\/ dirs' # dirs
              \/ fsfiles' # fsfiles
              \/ current_users' # current_users
              \/ dest' # dest
              \/ sv_pc' # sv_pc
              \/ reads' # reads
              \/ act_log' # act_log
              \/ vw_rv'.kind \in {"render", "download"}
              \/ vw_pc' \in {"main_upload", "main_render"}) => ValidSession
          /\ ~ValidSession =>
                /\ vw_pc = "main_with"
                /\ vw_pc' = "exit"
                /\ vw_rv' = RedirectHome
                /\ UNCHANGED <<dirs, fsfiles, current_users, dest, sv_pc, act_log,
                               flashes, sessions>>]_vars

\* a request whose token is not in sessions asked for a removal and an upload
\* at once and got the redirect, nothing else having happened
C16_Witness ==
    /\ vw_pc = "returned"
    /\ vw_req.view = "main"
    /\ vw_req.cookie.session = "bogus"
    /\ vw_req.action = "remove_file"
    /\ vw_req.path # <<>>
    /\ vw_req.upload
    /\ act_log = <<>>
    /\ sv_pc = "idle"
    /\ vw_rv = RedirectHome
    /\ sessions # {}

\* C17: logout invalidates a session for good.  After the logout part of a
\* /main request with action=logout the request's token is not in sessions,
\* the request performs no per-user action and returns the redirect to '/'; a
\* token a logout removed is never in sessions again (every token in sessions
\* was derived by on_auth and is none of the removed ones), and a later request
\* that carries it never reaches the logged-in branch.
C17_LogoutFinal ==
    /\ revoked \cap sessions = {}
    /\ sessions \cup revoked \subseteq {derive_token(i) : i \in 0..(n_derived - 1)}
    /\ (vw_req.view = "main" /\ vw_pc \notin {"main", "idle"}
          /\ vw_req.cookie.header /\ vw_req.action = "logout") =>
            /\ vw_req.cookie.session \notin sessions
            /\ act_log = <<>>
            /\ sv_pc = "idle"
            /\ vw_pc \in {"main_with", "exit", "returned"}
            /\ vw_rv \in {NoRv, RedirectHome}
    /\ (vw_req.view = "main" /\ vw_pc \notin {"main", "idle"}
          /\ vw_req.cookie.session \in revoked) =>
            /\ act_log = <<>>
            /\ sv_pc = "idle"
            /\ vw_pc \in {"main_with", "exit", "returned"}
            /\ vw_rv \in {NoRv, RedirectHome}

\* a token that was logged out came back in a later request asking for the
\* directory view and got the redirect; its client is still on record
C17_Witness ==
    /\ vw_pc = "returned"
    /\ vw_req.view = "main"
    /\ vw_req.action = None
    /\ vw_req.cookie.session \in revoked
    /\ vw_req.cookie.session \in DOMAIN current_users
    /\ vw_rv = RedirectHome

\* C18: every token in sessions is a key of current_users, the Client stored
\* under it carries the user name that authenticated when the token was
\* issued, a registered one, and the lookup of MainView's logged-in branch
\* never raises KeyError.
C18_SessionsHaveClients ==
    /\ sessions \subseteq DOMAIN current_users
    /\ DOMAIN current_users = DOMAIN issued
    /\ \A t \in DOMAIN current_users :
          /\ current_users[t].u_name = issued[t]
          /\ issued[t] \in DOMAIN users
    /\ vw_rv # [kind |-> "raised", exc |-> "KeyError"]

\* two users hold a session each and one of them was served the directory view
C18_Witness ==
    /\ \E t1 \in sessions, t2 \in sessions :
          current_users[t1].u_name # current_users[t2].u_name
    /\ vw_pc = "returned"
    /\ vw_req.view = "main"
    /\ vw_rv.kind = "render"

\* MainView takes the make-directory branch in this state
MakeDirBranch ==
    /\ vw_pc = "main_with"
    /\ ValidSession
    /\ vw_req.cookie.session \in DOMAIN current_users
    /\ ~(vw_req.path # <<>> /\ vw_req.action # None)
    /\ vw_req.dir_name_create # <<>>

\* C19: the make-directory action of MainView behaves like handle_make_dir of
\* main.py: it calls mkdir on the client's real cwd joined with the requested
\* name, and flashes 'Created directory: <name>' at level 1 when the creation
\* succeeds and 'No such file or directory: <name>' at level 2 when it raises.
C19_MakeDirLikeMain ==
    [][MakeDirBranch =>
          LET m == main_handle_make_dir(vw_req.dir_name_create,
                                        current_users[vw_req.cookie.session],
                                        dirs, fsfiles)
          IN  /\ dirs' = m.dirs
              /\ fsfiles' = m.files
              /\ flashes' = Append(flashes, m.flash)
              /\ Node(act_log'[Len(act_log')].path) = Node(m.path)]_vars

====
